---- MODULE Spec2Model ----
(***************************************************************************)
(* Model of the search-result highlighter and cropper of milli             *)
(* (crates/milli/src/search/new/matches).  A Matcher is built for one      *)
(* text and one MatchingWords table; get_match_bounds and                  *)
(* get_formatted_text are its two operations.  Positions (token, word,     *)
(* byte, char, match indexes) are 0-based as in the Rust code; TLA+        *)
(* sequences are 1-based, so element i of a Rust slice s is s[i + 1].      *)
(***************************************************************************)
EXTENDS Integers, Sequences, FiniteSets, TLC

(***************************************************************************)
(* Bounds of the model.                                                    *)
(***************************************************************************)
\* longest text, in tokens
MaxTokens == 3
\* largest crop size handed to FormatOptions (crop sizes are 0..MaxCrop)
MaxCrop == 3

(***************************************************************************)
(* Characters.  "A" stands for a two-byte accented letter that the         *)
(* tokenizer normalizes to "a" (as W-circumflex becomes w); "_" is a       *)
(* separator character; every other character is one byte and is its own  *)
(* normal form.                                                            *)
(***************************************************************************)
len_utf8(c) == IF c = "A" THEN 2 ELSE 1

Normalize(c) == IF c = "A" THEN "a" ELSE c

RECURSIVE str_len(_)
\* str::len: the byte length of a string (a sequence of characters)
str_len(s) == IF s = <<>> THEN 0 ELSE len_utf8(Head(s)) + str_len(Tail(s))

RECURSIVE NormalizeStr(_)
NormalizeStr(s) ==
    IF s = <<>> THEN <<>> ELSE <<Normalize(Head(s))>> \o NormalizeStr(Tail(s))

\* str::starts_with
starts_with(s, p) == Len(p) <= Len(s) /\ SubSeq(s, 1, Len(p)) = p

(***************************************************************************)
(* The units a text is made of: each becomes one token of the tokenizer.   *)
(* Word tokens may be adjacent (no separator in between), as in segmented  *)
(* scripts.                                                                *)
(***************************************************************************)
Units ==
    { [src |-> <<"a">>, sep |-> FALSE, stop |-> FALSE],
      [src |-> <<"b">>, sep |-> FALSE, stop |-> FALSE],
      [src |-> <<"A", "b">>, sep |-> FALSE, stop |-> FALSE],
      [src |-> <<"t">>, sep |-> FALSE, stop |-> TRUE],
      [src |-> <<"_">>, sep |-> TRUE, stop |-> FALSE] }

\* longer texts: a phrase of two words twice in a row, and two words
\* with separators between them and a stop word on either side
LongTexts ==
    LET a == [src |-> <<"a">>, sep |-> FALSE, stop |-> FALSE]
        b == [src |-> <<"b">>, sep |-> FALSE, stop |-> FALSE]
        t == [src |-> <<"t">>, sep |-> FALSE, stop |-> TRUE]
        space == [src |-> <<"_">>, sep |-> TRUE, stop |-> FALSE]
    IN { <<a, b, a, b>>, <<t, b, space, space, a, t>> }

Texts == UNION { [1..n -> Units] : n \in 0..MaxTokens } \cup LongTexts

RECURSIVE TextChars(_)
\* the characters of a text
TextChars(text) ==
    IF text = <<>> THEN <<>> ELSE Head(text).src \o TextChars(Tail(text))

\* the bytes of one character: byte k = 0 is its first byte
CharBytes(c) == [k \in 1..len_utf8(c) |-> [t |-> "b", c |-> c, k |-> k - 1]]

RECURSIVE StrBytes(_)
StrBytes(s) == IF s = <<>> THEN <<>> ELSE CharBytes(Head(s)) \o StrBytes(Tail(s))

\* the text as the bytes of a Rust &str
TextBytes(text) == StrBytes(TextChars(text))

\* str::is_char_boundary
is_char_boundary(bytes, i) ==
    \/ i = 0
    \/ i = Len(bytes)
    \/ i > 0 /\ i < Len(bytes) /\ bytes[i + 1].k = 0

RECURSIVE TokenizeFrom(_, _, _)
\* the tokens of the units left, the text so far being b bytes and c characters long
TokenizeFrom(units, b, c) ==
    IF units = <<>> THEN <<>>
    ELSE LET u == Head(units)
             tok == [lemma |-> NormalizeStr(u.src),
                     byte_start |-> b, byte_end |-> b + str_len(u.src),
                     char_start |-> c, char_end |-> c + Len(u.src),
                     sep |-> u.sep, stop |-> u.stop]
         IN <<tok>> \o TokenizeFrom(Tail(units), tok.byte_end, tok.char_end)

\* Tokenizer::tokenize_with_allow_list(text).collect()
Tokenize(text) == TokenizeFrom(text, 0, 0)

(***************************************************************************)
(* Located query terms, as the query compiler hands them to                *)
(* MatchingWords::new: the term's word derivations, its phrase             *)
(* derivations (a slot is Some(word) or None, None standing for a stop     *)
(* word), the query positions, is_prefix and the original word's number of *)
(* characters.                                                             *)
(***************************************************************************)
Some(w) == [some |-> TRUE, word |-> w]

None == [some |-> FALSE, word |-> <<>>]

Term(words, phrases, positions, is_prefix, original_char_count) ==
    [words |-> words, phrases |-> phrases, positions |-> positions,
     is_prefix |-> is_prefix, original_char_count |-> original_char_count]

\* no query: MatchingWords::default()
QueryEmpty == <<>>

\* query: b a   (the last word is a prefix)
QueryWords ==
    << Term(<< <<"b">> >>, <<>>, <<0, 0>>, FALSE, 1),
       Term(<< <<"a">> >>, <<>>, <<1, 1>>, TRUE, 1) >>

\* query: "the a" "a b" b   (two phrases, the first starting with a stop word)
QueryPhrases ==
    << Term(<<>>, << <<None, Some(<<"a">>)>> >>, <<0, 1>>, FALSE, 5),
       Term(<<>>, << <<Some(<<"a">>), Some(<<"b">>)>> >>, <<2, 3>>, FALSE, 3),
       Term(<< <<"b">> >>, <<>>, <<4, 4>>, TRUE, 1) >>

\* query: a b   with the 2-gram ab spanning both query positions
QueryNgram ==
    << Term(<< <<"a">> >>, <<>>, <<0, 0>>, FALSE, 1),
       Term(<< <<"b">> >>, <<>>, <<1, 1>>, TRUE, 1),
       Term(<< <<"a", "b">> >>, <<>>, <<0, 1>>, FALSE, 2) >>

\* query: ab a*   whose first term has a phrase derivation of no slot at all
QueryEmptyPhrase ==
    << Term(<< <<"a", "b">> >>, << <<>> >>, <<0, 0>>, FALSE, 2),
       Term(<< <<"a">> >>, <<>>, <<1, 1>>, TRUE, 1) >>

Queries == {QueryEmpty, QueryWords, QueryPhrases, QueryNgram, QueryEmptyPhrase}

(***************************************************************************)
(* usize arithmetic.  a - b with a < b panics in a build with overflow     *)
(* checks (debug, tests) and wraps to 2^64 - (b - a) otherwise.  TLC's     *)
(* integers are 32 bits wide: the modulus is represented by 2^30, which    *)
(* every quantity of the model is far below, as it is far below 2^64.      *)
(***************************************************************************)
UsizeModulus == 2^30

usize_sub(a, b) == IF a >= b THEN a - b ELSE UsizeModulus - (b - a)

\* whether a - b overflows
underflows(a, b) == a < b

Min(a, b) == IF a <= b THEN a ELSE b

Max(a, b) == IF a >= b THEN a ELSE b

(***************************************************************************)
(* MatchingWords                                                           *)
(***************************************************************************)
\* the length up to which sort_unstable_by and sort_unstable_by_key of the
\* toolchain sort by insertion and merging, leaving elements of equal key in
\* the order they had; longer slices are partitioned around pivots, which
\* moves elements of equal key past one another
SMALL_SORT_THRESHOLD == 32

\* positions are u16: a subtraction in a build without overflow checks wraps
U16Modulus == 2^16

u16_sub(a, b) == IF a >= b THEN a - b ELSE U16Modulus - (b - a)

\* lmw.position[1] - lmw.position[0] of the sort key, wrapping
\* `n as i16`, and the value an i16 operation wraps to: the low 16 bits of
\* n, read as two's complement
as_i16(n) == ((n + (U16Modulus \div 2)) % U16Modulus) - (U16Modulus \div 2)

\* the result n of an i16 operation is out of the range of i16
i16_overflows(n) == n < 0 - (U16Modulus \div 2) \/ n >= U16Modulus \div 2

position_width(lmw) == u16_sub(lmw.position[2], lmw.position[1])

\* the sort key (is_prefix, Reverse(position[1] - position[0])) of x is less
\* than that of y
words_key_less(x, y) ==
    \/ ~x.is_prefix /\ y.is_prefix
    \/ x.is_prefix = y.is_prefix /\ position_width(x) > position_width(y)

RECURSIVE InsertWords(_, _)
\* one step of the small sort of sort_unstable_by_key: x goes after every
\* entry whose key is not greater
InsertWords(sorted, x) ==
    IF sorted = <<>> THEN <<x>>
    ELSE IF words_key_less(x, Head(sorted)) THEN <<x>> \o sorted
    ELSE <<Head(sorted)>> \o InsertWords(Tail(sorted), x)

RECURSIVE SortWords(_, _)
\* the small sort of sort_unstable_by_key, for a slice of at most
\* SMALL_SORT_THRESHOLD entries
SortWords(sorted, rest) ==
    IF rest = <<>> THEN sorted
    ELSE SortWords(InsertWords(sorted, Head(rest)), Tail(rest))

\* s holds the elements of list, each as many times
same_elements(s, list) ==
    /\ Len(s) = Len(list)
    /\ \A i \in 1..Len(list) :
          Cardinality({j \in 1..Len(s) : s[j] = list[i]})
             = Cardinality({j \in 1..Len(list) : list[j] = list[i]})

\* the orders sort_unstable_by_key may leave the words list in: the one of
\* the small sort for a short list, for a longer one any order by key
sort_unstable_by_key(list) ==
    IF Len(list) <= SMALL_SORT_THRESHOLD THEN {SortWords(<<>>, list)}
    ELSE { s \in [1..Len(list) -> {list[i] : i \in 1..Len(list)}] :
              /\ same_elements(s, list)
              /\ \A i \in 1..(Len(s) - 1) : ~words_key_less(s[i + 1], s[i]) }

\* the sort computes a key, and with it position[1] - position[0], of every
\* entry when there are two entries or more to compare
sort_key_overflows(list) ==
    /\ Len(list) >= 2
    /\ \E i \in 1..Len(list) : underflows(list[i].position[2], list[i].position[1])

RECURSIVE CollectPhrases(_)
CollectPhrases(located_terms) ==
    IF located_terms = <<>> THEN <<>>
    ELSE LET t == Head(located_terms)
         IN [i \in 1..Len(t.phrases) |->
                [value |-> t.phrases[i], position |-> t.positions]]
            \o CollectPhrases(Tail(located_terms))

CollectWords(located_terms) ==
    [i \in 1..Len(located_terms) |->
        [value |-> located_terms[i].words,
         position |-> located_terms[i].positions,
         is_prefix |-> located_terms[i].is_prefix,
         original_char_count |-> located_terms[i].original_char_count]]

\* MatchingWords::new: the tables it may return, or a panic
MatchingWordsNew(located_terms, checks) ==
    IF sort_key_overflows(CollectWords(located_terms)) /\ checks
    THEN {[panic |-> TRUE, located_matching_phrases |-> <<>>,
           located_matching_words |-> <<>>]}
    ELSE {[panic |-> FALSE,
           located_matching_phrases |-> CollectPhrases(located_terms),
           located_matching_words |-> words] :
             words \in sort_unstable_by_key(CollectWords(located_terms))}

(***************************************************************************)
(* The token cursor: TokenPositionHelper::iter_from_tokens.  A cursor is   *)
(* the number of tokens already consumed; next() skips separators.         *)
(***************************************************************************)
RECURSIVE NextWordIndex(_, _)
\* the token index the cursor's next() yields, or -1 when it is exhausted
NextWordIndex(tokens, cur) ==
    IF cur >= Len(tokens) THEN -1
    ELSE IF ~tokens[cur + 1].sep THEN cur
    ELSE NextWordIndex(tokens, cur + 1)

\* position_by_word of token i: the number of non-separator tokens before it
position_by_word(tokens, i) == Cardinality({j \in 1..i : ~tokens[j].sep})

\* the Match records the match finder builds
MatchPhrase(byte_len, char_count, wpr, tpr, qpr) ==
    [kind |-> "Phrase", byte_len |-> byte_len, char_count |-> char_count,
     word_position_range |-> wpr, token_position_range |-> tpr,
     query_position_range |-> qpr]

MatchWord(byte_len, char_count, word_position, token_position, qpr) ==
    [kind |-> "Word", byte_len |-> byte_len, char_count |-> char_count,
     word_position_range |-> <<word_position, word_position>>,
     token_position_range |-> <<token_position, token_position>>,
     query_position_range |-> qpr]

RECURSIVE PhraseWalkAnyToken(_, _, _)
\* a mutant of PhraseWalk: a None slot matches any token, stop word or not
PhraseWalkAnyToken(tokens, cur, words) ==
    IF words = <<>> THEN -1
    ELSE LET j == NextWordIndex(tokens, cur)
         IN IF j = -1 THEN -1
            ELSE IF Head(words).some /\ tokens[j + 1].lemma # Head(words).word THEN -1
            ELSE IF Tail(words) = <<>> THEN j
            ELSE PhraseWalkAnyToken(tokens, j + 1, Tail(words))

RECURSIVE PhraseWalk(_, _, _)
\* the inner loop of try_get_phrase_match on a clone of the cursor: the index
\* of the token matching the last slot, or -1 when the phrase does not match
PhraseWalk(tokens, cur, words) ==
    IF words = <<>> THEN -1
    ELSE LET j == NextWordIndex(tokens, cur)
         IN IF j = -1 THEN -1
            ELSE LET tok == tokens[j + 1]
                     word == Head(words)
                     is_matching == IF word.some THEN tok.lemma = word.word
                                    ELSE tok.stop
                 IN IF ~is_matching THEN -1
                    ELSE IF Tail(words) = <<>> THEN j
                    ELSE PhraseWalk(tokens, j + 1, Tail(words))

\* the Option<Match> of the two try_get_* functions: the cursor after the match
\* and whether a prefix entry made it
NoMatch == [found |-> FALSE, panic |-> FALSE, cursor |-> 0, prefix |-> FALSE,
            match |-> MatchWord(0, 0, 0, 0, <<0, 0>>)]

\* a mutant of phrase_cursor_after: the cursor is committed one token past the
\* phrase's first token
phrase_cursor_first(first, last) == first + 1

\* *token_position_helper_iter = tph_iter: the caller's cursor after a phrase
\* matched tokens first..last
phrase_cursor_after(first, last) == last + 1

RECURSIVE PhraseLoopNoClone(_, _, _)
\* a mutant of PhraseLoop: a phrase is tried on the caller's cursor itself,
\* so a phrase that does not match leaves the cursor one word further
PhraseLoopNoClone(phrases, tokens, cur) ==
    IF phrases = <<>> THEN [NoMatch EXCEPT !.cursor = cur]
    ELSE LET lmp == Head(phrases)
             last == PhraseWalk(tokens, cur, lmp.value)
             first == NextWordIndex(tokens, cur)
         IN IF last = -1
            THEN PhraseLoopNoClone(Tail(phrases), tokens,
                                   IF first = -1 THEN cur ELSE first + 1)
            ELSE [found |-> TRUE, panic |-> FALSE,
                  cursor |-> phrase_cursor_after(first, last),
                  prefix |-> FALSE,
                  match |-> MatchPhrase(
                      tokens[last + 1].byte_end - tokens[first + 1].byte_start + 1,
                      tokens[last + 1].char_end - tokens[first + 1].char_start + 1,
                      <<position_by_word(tokens, first), position_by_word(tokens, last)>>,
                      <<first, last>>,
                      lmp.position)]

RECURSIVE PhraseLoop(_, _, _)
\* the 'outer loop of try_get_phrase_match over the phrases left
PhraseLoop(phrases, tokens, cur) ==
    IF phrases = <<>> THEN [NoMatch EXCEPT !.cursor = cur]
    ELSE LET lmp == Head(phrases)
             last == PhraseWalk(tokens, cur, lmp.value)
         IN IF last = -1 THEN PhraseLoop(Tail(phrases), tokens, cur)
            ELSE LET first == NextWordIndex(tokens, cur)
                     ft == tokens[first + 1]
                     lt == tokens[last + 1]
                 IN [found |-> TRUE, panic |-> FALSE,
                     cursor |-> phrase_cursor_after(first, last),
                     prefix |-> FALSE,
                     match |-> MatchPhrase(
                         lt.byte_end - ft.byte_start + 1,
                         lt.char_end - ft.char_start + 1,
                         <<position_by_word(tokens, first), position_by_word(tokens, last)>>,
                         <<first, last>>,
                         lmp.position)]

try_get_phrase_match(mw, tokens, cur) ==
    PhraseLoop(mw.located_matching_phrases, tokens, cur)

RECURSIVE prefix_byte_len(_, _)
\* word.char_indices().nth(n).map(|(char_index, c)| char_index + c.len_utf8()),
\* -1 for None
prefix_byte_len(word, n) ==
    IF n < 0 \/ n >= Len(word) THEN -1
    ELSE str_len(SubSeq(word, 1, n + 1))

\* the (located_words, word) pairs try_get_word_match walks, in order
RECURSIVE FlatWords(_)
FlatWords(lws) ==
    IF lws = <<>> THEN <<>>
    ELSE [i \in 1..Len(Head(lws).value) |-> [lw |-> Head(lws), word |-> Head(lws).value[i]]]
         \o FlatWords(Tail(lws))

RECURSIVE WordLoop(_, _, _, _)
\* the loop of try_get_word_match over the pairs left, for token i;
\* original_char_count - 1 is a usize subtraction
WordLoop(pairs, tokens, i, checks) ==
    IF pairs = <<>> THEN NoMatch
    ELSE LET lw == Head(pairs).lw
             word == Head(pairs).word
             tok == tokens[i + 1]
             emit(char_count, byte_len, by_prefix) ==
                 [found |-> TRUE, panic |-> FALSE, cursor |-> i + 1,
                  prefix |-> by_prefix,
                  match |-> MatchWord(byte_len, char_count,
                                      position_by_word(tokens, i), i, lw.position)]
         IN IF lw.is_prefix /\ starts_with(tok.lemma, word)
            THEN IF underflows(lw.original_char_count, 1) /\ checks
                 THEN [NoMatch EXCEPT !.panic = TRUE]
                 ELSE LET pbl == prefix_byte_len(word,
                                     usize_sub(lw.original_char_count, 1))
                      IN IF pbl = -1 THEN WordLoop(Tail(pairs), tokens, i, checks)
                         ELSE emit(lw.original_char_count, pbl, TRUE)
            ELSE IF tok.lemma = word
            THEN emit(tok.char_end - tok.char_start + 1,
                      tok.byte_end - tok.byte_start + 1, FALSE)
            ELSE WordLoop(Tail(pairs), tokens, i, checks)

try_get_word_match(mw, tokens, i, checks) ==
    WordLoop(FlatWords(mw.located_matching_words), tokens, i, checks)

RECURSIVE MatchLoop(_, _, _, _, _)
\* the loop of get_matches: the matches in the order they are pushed, or a
\* panic
MatchLoop(mw, tokens, cur, matches, checks) ==
    LET p == try_get_phrase_match(mw, tokens, cur)
    IN IF p.found
       THEN MatchLoop(mw, tokens, p.cursor, Append(matches, p.match), checks)
       ELSE LET i == NextWordIndex(tokens, p.cursor)
            IN IF i = -1 THEN [panic |-> FALSE, matches |-> matches]
               ELSE LET w == try_get_word_match(mw, tokens, i, checks)
                    IN IF w.panic THEN [panic |-> TRUE, matches |-> <<>>]
                       ELSE MatchLoop(mw, tokens, i + 1,
                                IF w.found THEN Append(matches, w.match)
                                ELSE matches,
                                checks)

RECURSIVE InsertByQueryPosition(_, _)
\* one step of the small sort of sort_unstable_by on query_position_range[0]
InsertByQueryPosition(sorted, m) ==
    IF sorted = <<>> THEN <<m>>
    ELSE IF m.query_position_range[1] < Head(sorted).query_position_range[1]
         THEN <<m>> \o sorted
         ELSE <<Head(sorted)>> \o InsertByQueryPosition(Tail(sorted), m)

RECURSIVE SortByQueryPosition(_, _)
\* the small sort of sort_unstable_by, for at most SMALL_SORT_THRESHOLD matches
SortByQueryPosition(sorted, rest) ==
    IF rest = <<>> THEN sorted
    ELSE SortByQueryPosition(InsertByQueryPosition(sorted, Head(rest)), Tail(rest))

\* the word attempt of an iteration of get_matches, for the next word after
\* a cursor, panics
word_attempt_panics(mw, tokens, cur, checks) ==
    /\ NextWordIndex(tokens, cur) # -1
    /\ try_get_word_match(mw, tokens, NextWordIndex(tokens, cur), checks).panic

RECURSIVE CursorLoop(_, _, _, _)
\* the loop of get_matches again, keeping the cursor each iteration starts
\* with
CursorLoop(mw, tokens, cur, checks) ==
    IF try_get_phrase_match(mw, tokens, cur).found
    THEN <<cur>> \o CursorLoop(mw, tokens,
                       try_get_phrase_match(mw, tokens, cur).cursor, checks)
    ELSE IF NextWordIndex(tokens, try_get_phrase_match(mw, tokens, cur).cursor) = -1
            \/ word_attempt_panics(mw, tokens, cur, checks)
    THEN <<cur>>
    ELSE <<cur>> \o CursorLoop(mw, tokens,
                       NextWordIndex(tokens,
                           try_get_phrase_match(mw, tokens, cur).cursor) + 1,
                       checks)

\* the cursors the iterations of get_matches start with, in order
visited_cursors(mw, tokens, checks) == CursorLoop(mw, tokens, 0, checks)

\* the matches as the loop of get_matches pushes them, before the final sort
found_matches(mw, tokens, checks) == MatchLoop(mw, tokens, 0, <<>>, checks)

\* the orders sort_unstable_by may leave the matches in: the one of the
\* small sort for a short list, for a longer one any order by
\* query_position_range[0]
sort_unstable_by(matches) ==
    IF Len(matches) <= SMALL_SORT_THRESHOLD THEN {SortByQueryPosition(<<>>, matches)}
    ELSE { s \in [1..Len(matches) -> {matches[i] : i \in 1..Len(matches)}] :
              /\ same_elements(s, matches)
              /\ \A i \in 1..(Len(s) - 1) :
                    s[i].query_position_range[1] <= s[i + 1].query_position_range[1] }

\* the match lists get_matches may return once its loop is through
sorted_matches(found) ==
    IF found.panic THEN {[panic |-> TRUE, matches |-> <<>>]}
    ELSE {[panic |-> FALSE, matches |-> s] : s \in sort_unstable_by(found.matches)}

\* MatchingWords::get_matches: the match lists it may return, or a panic
get_matches(mw, tokens, checks) == sorted_matches(found_matches(mw, tokens, checks))

(***************************************************************************)
(* Match accessors (r#match).                                              *)
(***************************************************************************)
get_first_word_pos(m) == m.word_position_range[1]

get_last_word_pos(m) == m.word_position_range[2]

get_first_token_pos(m) == m.token_position_range[1]

get_last_token_pos(m) == m.token_position_range[2]

get_word_count(m) == m.word_position_range[2] - m.word_position_range[1] + 1

get_query_position(m) == m.query_position_range

\* the order of [i16; 3]: a > b
score_greater(a, b) ==
    \/ a[1] > b[1]
    \/ a[1] = b[1] /\ a[2] > b[2]
    \/ a[1] = b[1] /\ a[2] = b[2] /\ a[3] > b[3]

(***************************************************************************)
(* best_match_interval.rs                                                  *)
(***************************************************************************)
RECURSIVE ScoreLoop(_, _, _, _)
\* the while loop of get_score from match i (1-based) on; st holds the
\* running scores (i16), the current query range and whether an operation
\* overflowed in a build that checks: lwp - fwp of tally_phrase_scores
\* (usize), next_match_first_word_pos - match_last_word_pos (usize),
\* saved_range_end - saved_range_start (u16) and the additions and
\* subtractions of the scores (i16); a build that does not check wraps
ScoreLoop(matches, i, st, overflow_checks) ==
    IF i > Len(matches) \/ st.panic THEN st
    ELSE LET m == matches[i]
             fwp == m.word_position_range[1]
             lwp == m.word_position_range[2]
             is_phrase == m.kind = "Phrase"
             has_next == i < Len(matches)
             \* tally_phrase_scores
             words_in_phrase_minus_one ==
                 IF is_phrase THEN as_i16(usize_sub(lwp, fwp)) ELSE 0
             order == st.order + words_in_phrase_minus_one
             tallied == st.distance - words_in_phrase_minus_one
             next_first == IF has_next THEN get_first_word_pos(matches[i + 1]) ELSE 0
             dist == IF has_next THEN Min(usize_sub(next_first, lwp), 7) ELSE 0
             distance == as_i16(tallied) - dist
             qp == get_query_position(m)
             cur == st.current_range
             new_start == st.has_range /\ qp[1] > cur[1]
             \* (*saved_range_end - *saved_range_start) as i16 + 1
             width == as_i16(u16_sub(cur[2], cur[1])) + 1
             uniqueness == IF new_start THEN st.uniqueness + as_i16(width)
                           ELSE st.uniqueness
             overflow == \/ is_phrase /\ underflows(lwp, fwp)
                         \/ has_next /\ underflows(next_first, lwp)
                         \/ new_start /\ underflows(cur[2], cur[1])
                         \/ i16_overflows(order)
                         \/ i16_overflows(tallied)
                         \/ i16_overflows(distance)
                         \/ new_start /\ i16_overflows(width)
                         \/ i16_overflows(uniqueness)
             new_range == IF ~st.has_range THEN qp
                          ELSE IF qp[1] > cur[1] THEN qp
                          ELSE IF qp[2] > cur[2] THEN <<cur[1], qp[2]>>
                          ELSE cur
         IN IF overflow /\ overflow_checks THEN [st EXCEPT !.panic = TRUE]
            ELSE ScoreLoop(matches, i + 1,
                    [panic |-> FALSE,
                     uniqueness |-> as_i16(uniqueness),
                     distance |-> as_i16(distance),
                     order |-> as_i16(order),
                     has_range |-> TRUE,
                     current_range |-> new_range],
                    overflow_checks)

\* the tail of get_score: the last query range is counted into the
\* uniqueness score and the three scores are returned in order
final_score(st, overflow_checks) ==
    LET cur == st.current_range
        width == as_i16(u16_sub(cur[2], cur[1])) + 1
        uniqueness == IF st.has_range THEN st.uniqueness + as_i16(width)
                      ELSE st.uniqueness
        overflow == st.has_range /\ (\/ underflows(cur[2], cur[1])
                                      \/ i16_overflows(width)
                                      \/ i16_overflows(uniqueness))
    IN IF st.panic \/ (overflow /\ overflow_checks)
       THEN [panic |-> TRUE, score |-> <<0, 0, 0>>]
       ELSE [panic |-> FALSE,
             score |-> <<as_i16(uniqueness), st.distance, st.order>>]

\* get_score: [panic, score]; order_score starts at matches.len() as i16
get_score(matches, overflow_checks) ==
    final_score(ScoreLoop(matches, 1,
                    [panic |-> FALSE, uniqueness |-> 0, distance |-> 0,
                     order |-> as_i16(Len(matches)), has_range |-> FALSE,
                     current_range |-> <<0, 0>>],
                    overflow_checks),
                overflow_checks)

\* the closure save_best_interval: the best interval after scoring
\* matches[interval_first..=interval_last]; slicing panics when
\* interval_first > interval_last + 1
save_if_better(best, interval_first, interval_last, sc) ==
    IF sc.panic THEN [best EXCEPT !.panic = TRUE]
    ELSE IF ~best.some \/ score_greater(sc.score, best.score)
    THEN [panic |-> FALSE, some |-> TRUE,
          matches_index_range |-> <<interval_first, interval_last>>,
          score |-> sc.score]
    ELSE best

save_best_interval(matches, best, interval_first, interval_last, overflow_checks) ==
    IF interval_first > interval_last + 1 \/ interval_last >= Len(matches)
    THEN [best EXCEPT !.panic = TRUE]
    ELSE save_if_better(best, interval_first, interval_last,
                        get_score(SubSeq(matches, interval_first + 1,
                                         interval_last + 1),
                                  overflow_checks))

\* a mutant of AdvanceLoop: the loop breaks before its first increment
AdvanceLoopNoStep(matches, interval_first, next_match_last_word_pos, crop_size) ==
    interval_first

RECURSIVE AdvanceLoop(_, _, _, _)
\* the inner loop of get_best_match_interval: the new interval_first
AdvanceLoop(matches, interval_first, next_match_last_word_pos, crop_size) ==
    IF interval_first = Len(matches) - 1 THEN interval_first
    ELSE LET nf == interval_first + 1
             fw == get_first_word_pos(matches[nf + 1])
         IN IF fw > next_match_last_word_pos
               \/ next_match_last_word_pos - fw < crop_size
            THEN nf
            ELSE AdvanceLoop(matches, nf, next_match_last_word_pos, crop_size)

RECURSIVE IntervalLoop(_, _, _, _, _, _)
\* the for loop of get_best_match_interval from match `index` (0-based) on:
\* [interval_first, best]
IntervalLoop(matches, index, interval_first, best, crop_size, overflow_checks) ==
    IF index >= Len(matches) \/ best.panic
    THEN [interval_first |-> interval_first, best |-> best]
    ELSE LET next_match_last_word_pos == get_last_word_pos(matches[index + 1])
             ifw == get_first_word_pos(matches[interval_first + 1])
         IN IF underflows(next_match_last_word_pos, ifw) /\ overflow_checks
            THEN [interval_first |-> interval_first,
                  best |-> [best EXCEPT !.panic = TRUE]]
            ELSE IF usize_sub(next_match_last_word_pos, ifw) >= crop_size
            THEN LET saved == IF index # 0
                              THEN save_best_interval(matches, best, interval_first,
                                                      index - 1, overflow_checks)
                              ELSE best
                 IN IntervalLoop(matches, index + 1,
                        AdvanceLoop(matches, interval_first,
                                    next_match_last_word_pos, crop_size),
                        saved, crop_size, overflow_checks)
            ELSE IntervalLoop(matches, index + 1, interval_first, best,
                              crop_size, overflow_checks)

NoBest == [panic |-> FALSE, some |-> FALSE, matches_index_range |-> <<0, 0>>,
           score |-> <<0, 0, 0>>]

RECURSIVE CandidateLoop(_, _, _, _, _, _)
\* the for loop of get_best_match_interval again, keeping the intervals it
\* hands to save_best_interval in the order it hands them; the loop ends at
\* a panic, of the subtraction of the loop condition or inside
\* save_best_interval, the interval handed to it last being kept:
\* [panic, interval_first, intervals]
CandidateLoop(matches, index, interval_first, crop_size, intervals, overflow_checks) ==
    IF index >= Len(matches)
    THEN [panic |-> FALSE, interval_first |-> interval_first, intervals |-> intervals]
    ELSE IF underflows(get_last_word_pos(matches[index + 1]),
                       get_first_word_pos(matches[interval_first + 1]))
            /\ overflow_checks
    THEN [panic |-> TRUE, interval_first |-> interval_first, intervals |-> intervals]
    ELSE IF usize_sub(get_last_word_pos(matches[index + 1]),
                      get_first_word_pos(matches[interval_first + 1])) >= crop_size
    THEN IF index = 0
         THEN CandidateLoop(matches, index + 1,
                  AdvanceLoop(matches, interval_first,
                              get_last_word_pos(matches[index + 1]), crop_size),
                  crop_size, intervals, overflow_checks)
         ELSE IF save_best_interval(matches, NoBest, interval_first, index - 1,
                                    overflow_checks).panic
         THEN [panic |-> TRUE, interval_first |-> interval_first,
               intervals |-> Append(intervals, <<interval_first, index - 1>>)]
         ELSE CandidateLoop(matches, index + 1,
                  AdvanceLoop(matches, interval_first,
                              get_last_word_pos(matches[index + 1]), crop_size),
                  crop_size, Append(intervals, <<interval_first, index - 1>>),
                  overflow_checks)
    ELSE CandidateLoop(matches, index + 1, interval_first, crop_size, intervals,
                       overflow_checks)

\* the last interval, handed to save_best_interval after a loop that did
\* not panic unless it is one match of crop_size words or more
with_last_interval(matches, lp, crop_size) ==
    IF lp.panic THEN lp.intervals
    ELSE IF lp.interval_first # Len(matches) - 1
            \/ get_word_count(matches[lp.interval_first + 1]) < crop_size
    THEN Append(lp.intervals, <<lp.interval_first, Len(matches) - 1>>)
    ELSE lp.intervals

\* every interval get_best_match_interval hands to save_best_interval, in
\* the order it hands them
scored_intervals(matches, crop_size, overflow_checks) ==
    IF matches = <<>> THEN <<>>   \* matches[interval_first] of an empty slice
    ELSE with_last_interval(matches,
             CandidateLoop(matches, 0, 0, crop_size, <<>>, overflow_checks),
             crop_size)

\* the interval the function returns: best_interval.map_or(
\* [0, 0], |v| v.matches_index_range)
best_interval_range(best) ==
    [panic |-> best.panic,
     range |-> IF best.some THEN best.matches_index_range ELSE <<0, 0>>]

\* the last interval, not compared inside the loop, is compared after it
save_last_interval(matches, lp, crop_size, overflow_checks) ==
    IF lp.best.panic THEN lp.best
    \* matches.len() - 1 and matches[interval_first] of an empty slice
    ELSE IF matches = <<>> THEN [lp.best EXCEPT !.panic = TRUE]
    ELSE IF lp.interval_first # Len(matches) - 1
            \/ get_word_count(matches[lp.interval_first + 1]) < crop_size
    THEN save_best_interval(matches, lp.best, lp.interval_first,
                            Len(matches) - 1, overflow_checks)
    ELSE lp.best

\* get_best_match_interval: [panic, range]; matches[interval_first], read
\* before the loop, panics on an empty slice
get_best_match_interval(matches, crop_size, overflow_checks) ==
    IF matches = <<>> THEN best_interval_range([NoBest EXCEPT !.panic = TRUE])
    ELSE best_interval_range(
             save_last_interval(matches,
                 IntervalLoop(matches, 0, 0, NoBest, crop_size, overflow_checks),
                 crop_size, overflow_checks))

\* best_match_range::get_best_match_index_range, which
\* get_matches_and_crop_indexes calls: the best-interval selector of the
\* subsystem, the one of best_match_interval.rs
get_best_match_index_range(matches, crop_size, overflow_checks) ==
    get_best_match_interval(matches, crop_size, overflow_checks)

(***************************************************************************)
(* adjust_indexes: the expansion of the crop window around the best        *)
(* interval, one word at a time, forward first, until crop_size words are  *)
(* in the window or both ends of the text are reached.                     *)
(***************************************************************************)
word_count_before(tokens, i) == Cardinality({j \in 1..i : ~tokens[j].sep})

\* adjust_indexes::get_adjusted_index_forward_for_crop_size, after the
\* description of the no-match crop: the token reached by consuming
\* crop_size words from the start of the text, that is the token after the
\* crop_size-th word, or the last token when the text has no more than
\* crop_size words (a text without words is then kept whole)
get_adjusted_index_forward_for_crop_size(tokens, crop_size) ==
    IF word_count_before(tokens, Len(tokens)) <= crop_size THEN Len(tokens) - 1
    ELSE CHOOSE i \in 0..(Len(tokens) - 1) :
            /\ word_count_before(tokens, i) = crop_size
            /\ \A j \in 0..(i - 1) : word_count_before(tokens, j) < crop_size

RECURSIVE ExpandWindow(_, _, _, _, _, _)
\* lo..hi: the tokens in the window (0-based, inclusive); forward: the side
\* to expand next
ExpandWindow(tokens, lo, hi, words_count, crop_size, forward) ==
    LET last == Len(tokens) - 1
    IN IF words_count >= crop_size \/ (lo <= 0 /\ hi >= last) THEN <<lo, hi>>
       ELSE IF forward /\ hi >= last
            THEN ExpandWindow(tokens, lo, hi, words_count, crop_size, FALSE)
       ELSE IF ~forward /\ lo <= 0
            THEN ExpandWindow(tokens, lo, hi, words_count, crop_size, TRUE)
       ELSE IF forward
            THEN IF tokens[hi + 2].sep
                 THEN ExpandWindow(tokens, lo, hi + 1, words_count, crop_size, TRUE)
                 ELSE ExpandWindow(tokens, lo, hi + 1, words_count + 1, crop_size, FALSE)
       ELSE IF tokens[lo].sep
            THEN ExpandWindow(tokens, lo - 1, hi, words_count, crop_size, FALSE)
            ELSE ExpandWindow(tokens, lo - 1, hi, words_count + 1, crop_size, TRUE)

\* [index_backward, index_forward]: the tokens next to the window on either
\* side, or the first and the last token where the window reaches them
get_adjusted_indexes_for_highlights_and_crop_size(tokens, index_backward, index_forward, words_count, crop_size) ==
    LET w == ExpandWindow(tokens, index_backward, index_forward, words_count,
                          crop_size, TRUE)
        last == Len(tokens) - 1
    IN << IF w[1] <= 0 THEN 0 ELSE w[1] - 1,
          IF w[2] >= last THEN last ELSE w[2] + 1 >>

(***************************************************************************)
(* match_bounds.rs                                                         *)
(***************************************************************************)
Full == [type |-> "full", highlight_toggle |-> FALSE, indexes |-> <<>>]

Formatted(highlight_toggle, indexes) ==
    [type |-> "formatted", highlight_toggle |-> highlight_toggle, indexes |-> indexes]

\* the call did not return: a panic (subtraction overflow in a build that
\* checks, a slice or capacity out of range)
Panic == [type |-> "panic", highlight_toggle |-> FALSE, indexes |-> <<>>]

\* FormatOptions
FormatOptions(highlight, crop) == [highlight |-> highlight, crop |-> crop]

\* Option<usize> for crop: -1 is None
CropNone == -1

get_match_byte_position_range(tokens, m) ==
    LET byte_start == tokens[m.token_position_range[1] + 1].byte_start
    IN <<byte_start, byte_start + m.byte_len>>

\* get_match_byte_position_rangee with CropThing::First(crop_byte_start):
\* [range, index]
match_range_first(tokens, matches, index, crop_byte_start) ==
    IF index # 0
    THEN LET r == get_match_byte_position_range(tokens, matches[index])
         IN IF crop_byte_start < r[2]
            THEN [range |-> r, index |-> index - 1]
            ELSE [range |-> get_match_byte_position_range(tokens, matches[index + 1]),
                  index |-> index]
    ELSE [range |-> get_match_byte_position_range(tokens, matches[index + 1]),
          index |-> index]

\* get_match_byte_position_rangee with CropThing::Last(crop_byte_end)
match_range_last(tokens, matches, index, crop_byte_end) ==
    IF index # Len(matches) - 1
    THEN LET r == get_match_byte_position_range(tokens, matches[index + 2])
         IN IF r[1] < crop_byte_end
            THEN [range |-> r, index |-> index + 1]
            ELSE [range |-> get_match_byte_position_range(tokens, matches[index + 1]),
                  index |-> index]
    ELSE [range |-> get_match_byte_position_range(tokens, matches[index + 1]),
          index |-> index]

RECURSIVE MiddleIndexes(_, _, _, _)
\* the offsets of matches[from..to] (0-based, `to` excluded)
MiddleIndexes(tokens, matches, from, to) ==
    IF from >= to THEN <<>>
    ELSE get_match_byte_position_range(tokens, matches[from + 1])
         \o MiddleIndexes(tokens, matches, from + 1, to)

MatchesAndCropIndexes(mfi, mli, cbs, cbe) ==
    [panic |-> FALSE, matches_first_index |-> mfi, matches_last_index |-> mli,
     crop_byte_start |-> cbs, crop_byte_end |-> cbe]

\* the greatest capacity Vec::<usize>::with_capacity takes without the
\* panic "capacity overflow": isize::MAX / size_of::<usize>(), a sixteenth
\* of the range of usize
max_capacity == UsizeModulus \div 16 - 1

\* indexes_size of get_match_bounds, in wrapping arithmetic
indexes_size_of(selected_matches_len, leading, trailing) ==
    (((2 * selected_matches_len) % UsizeModulus) + (IF leading THEN 1 ELSE 0)
        + (IF trailing THEN 1 ELSE 0)) % UsizeModulus

\* a mutant of helper_get_match_bounds: highlight_toggle is true when the
\* crop starts before the first match
helper_get_match_bounds_toggle(tokens, matches, mci, overflow_checks) ==
    LET f == match_range_first(tokens, matches, mci.matches_first_index,
                               mci.crop_byte_start)
        l == IF f.index # mci.matches_last_index
             THEN match_range_last(tokens, matches, mci.matches_last_index,
                                   mci.crop_byte_end)
             ELSE [range |-> <<Max(f.range[1], mci.crop_byte_start), f.range[2]>>,
                   index |-> mci.matches_last_index]
        len == (usize_sub(l.index, f.index) + 1) % UsizeModulus
        leading == mci.crop_byte_start # Max(f.range[1], mci.crop_byte_start)
        trailing == mci.crop_byte_end # Min(l.range[2], mci.crop_byte_end)
    IN IF \/ underflows(l.index, f.index) /\ overflow_checks
          \/ indexes_size_of(len, leading, trailing) > max_capacity
       THEN Panic
       ELSE Formatted(leading,
              (IF leading THEN <<mci.crop_byte_start>> ELSE <<>>)
              \o <<Max(f.range[1], mci.crop_byte_start)>>
              \o (IF len > 1 THEN <<f.range[2]>> ELSE <<>>)
              \o (IF len > 2
                  THEN MiddleIndexes(tokens, matches, f.index + 1, l.index)
                  ELSE <<>>)
              \o (IF len > 1 THEN <<l.range[1]>> ELSE <<>>)
              \o <<Min(l.range[2], mci.crop_byte_end)>>
              \o (IF trailing THEN <<mci.crop_byte_end>> ELSE <<>>))

\* MatchBoundsHelper::get_match_bounds
helper_get_match_bounds(tokens, matches, mci, overflow_checks) ==
    LET crop_byte_start == mci.crop_byte_start
        crop_byte_end == mci.crop_byte_end
        f == match_range_first(tokens, matches, mci.matches_first_index, crop_byte_start)
        matches_first_index == f.index
        first_match_first_byte == Max(f.range[1], crop_byte_start)
        first_match_last_byte == f.range[2]
        l == IF matches_first_index # mci.matches_last_index
             THEN match_range_last(tokens, matches, mci.matches_last_index, crop_byte_end)
             ELSE [range |-> <<first_match_first_byte, first_match_last_byte>>,
                   index |-> mci.matches_last_index]
        matches_last_index == l.index
        last_match_first_byte == l.range[1]
        last_match_last_byte == Min(l.range[2], crop_byte_end)
        selected_matches_len ==
            (usize_sub(matches_last_index, matches_first_index) + 1) % UsizeModulus
        crop_byte_start_is_not_first_match_start ==
            crop_byte_start # first_match_first_byte
        crop_byte_end_is_not_last_match_end == crop_byte_end # last_match_last_byte
        indexes ==
            (IF crop_byte_start_is_not_first_match_start
             THEN <<crop_byte_start>> ELSE <<>>)
            \o <<first_match_first_byte>>
            \o (IF selected_matches_len > 1 THEN <<first_match_last_byte>> ELSE <<>>)
            \o (IF selected_matches_len > 2
                THEN MiddleIndexes(tokens, matches, matches_first_index + 1,
                                   matches_last_index)
                ELSE <<>>)
            \o (IF selected_matches_len > 1 THEN <<last_match_first_byte>> ELSE <<>>)
            \o <<last_match_last_byte>>
            \o (IF crop_byte_end_is_not_last_match_end
                THEN <<crop_byte_end>> ELSE <<>>)
    \* the subtraction of selected_matches_len overflows in a build that
    \* checks; Vec::with_capacity(indexes_size) panics past max_capacity
    IN IF \/ underflows(matches_last_index, matches_first_index) /\ overflow_checks
          \/ indexes_size_of(selected_matches_len,
                             crop_byte_start_is_not_first_match_start,
                             crop_byte_end_is_not_last_match_end) > max_capacity
       THEN Panic
       ELSE Formatted(~crop_byte_start_is_not_first_match_start, indexes)

\* MatchBoundsHelper::get_crop_bounds_with_no_matches
get_crop_bounds_with_no_matches(tokens, crop_size) ==
    IF tokens = <<>> THEN Panic   \* self.tokens[..] of an empty slice
    ELSE
    LET final_token_index == get_adjusted_index_forward_for_crop_size(tokens, crop_size)
        final_token == tokens[final_token_index + 1]
        crop_byte_end == IF final_token_index # Len(tokens) - 1
                         THEN final_token.byte_start
                         ELSE final_token.byte_end
    IN Formatted(FALSE, <<0, crop_byte_end>>)

\* MatchBoundsHelper::get_matches_and_crop_indexes
\* the crop bytes of get_matches_and_crop_indexes: the start of the token
\* at index_backward when it is the first token and its end otherwise, the
\* end of the token at index_forward when it is the last and its start
\* otherwise
crop_bytes(tokens, matches_first_index, matches_last_index, adj) ==
    MatchesAndCropIndexes(
        matches_first_index, matches_last_index,
        IF adj[1] = 0 THEN tokens[adj[1] + 1].byte_start
        ELSE tokens[adj[1] + 1].byte_end,
        IF adj[2] = Len(tokens) - 1 THEN tokens[adj[2] + 1].byte_end
        ELSE tokens[adj[2] + 1].byte_start)

\* get_matches_and_crop_indexes once the best interval is known
crop_around(tokens, first_match, last_match, range, crop_size, overflow_checks) ==
    IF underflows(get_last_word_pos(last_match), get_first_word_pos(first_match))
       /\ overflow_checks
    THEN [MatchesAndCropIndexes(0, 0, 0, 0) EXCEPT !.panic = TRUE]
    ELSE crop_bytes(tokens, range[1], range[2],
             get_adjusted_indexes_for_highlights_and_crop_size(
                 tokens, get_first_token_pos(first_match),
                 get_last_token_pos(last_match),
                 (usize_sub(get_last_word_pos(last_match),
                            get_first_word_pos(first_match)) + 1) % UsizeModulus,
                 crop_size))

crop_around_best(tokens, matches, best, crop_size, overflow_checks) ==
    IF best.panic THEN [MatchesAndCropIndexes(0, 0, 0, 0) EXCEPT !.panic = TRUE]
    ELSE crop_around(tokens, matches[best.range[1] + 1], matches[best.range[2] + 1],
                     best.range, crop_size, overflow_checks)

get_matches_and_crop_indexes(tokens, matches, crop_size, overflow_checks) ==
    crop_around_best(tokens, matches,
                     get_best_match_index_range(matches, crop_size, overflow_checks),
                     crop_size, overflow_checks)

\* MatchBoundsHelper::get_crop_and_highlight_bounds
highlight_bounds_of(tokens, matches, mci, overflow_checks) ==
    IF mci.panic THEN Panic
    ELSE helper_get_match_bounds(tokens, matches, mci, overflow_checks)

get_crop_and_highlight_bounds(tokens, matches, crop_size, overflow_checks) ==
    highlight_bounds_of(tokens, matches,
        get_matches_and_crop_indexes(tokens, matches, crop_size, overflow_checks),
        overflow_checks)

\* a mutant of get_crop_bounds_with_matches: the bounds of the matches are
\* kept when only a crop is asked for
crop_bounds_with_highlights(tokens, matches, crop_size, overflow_checks) ==
    get_crop_and_highlight_bounds(tokens, matches, crop_size, overflow_checks)

\* MatchBoundsHelper::get_crop_bounds_with_matches
crop_bounds_of(mci) ==
    IF mci.panic THEN Panic
    ELSE Formatted(FALSE, <<mci.crop_byte_start, mci.crop_byte_end>>)

get_crop_bounds_with_matches(tokens, matches, crop_size, overflow_checks) ==
    crop_bounds_of(
        get_matches_and_crop_indexes(tokens, matches, crop_size, overflow_checks))

\* a mutant of crop_filter: Some(0) is not filtered out
crop_filter_keeps_zero(crop) == crop

\* format_options.crop.filter(|v| *v != 0)
crop_filter(crop) == IF crop # CropNone /\ crop # 0 THEN crop ELSE CropNone

\* match_bounds::get_match_bounds
get_match_bounds(tokens, matches, format_options, overflow_checks) ==
    LET crop_size == crop_filter(format_options.crop)
    IN IF crop_size # CropNone
       THEN IF matches = <<>>
            THEN get_crop_bounds_with_no_matches(tokens, crop_size)
            ELSE IF format_options.highlight
            THEN get_crop_and_highlight_bounds(tokens, matches, crop_size, overflow_checks)
            ELSE get_crop_bounds_with_matches(tokens, matches, crop_size, overflow_checks)
       ELSE IF format_options.highlight /\ matches # <<>>
            THEN helper_get_match_bounds(
                     tokens, matches,
                     MatchesAndCropIndexes(0, Len(matches) - 1, 0,
                                           tokens[Len(tokens)].byte_end),
                     overflow_checks)
            ELSE Full

(***************************************************************************)
(* matches.rs: MatcherBuilder, Matcher                                     *)
(***************************************************************************)
\* the formatting strings, as output items distinct from every text byte
DEFAULT_CROP_MARKER == <<[t |-> "crop", c |-> "", k |-> 0]>>

DEFAULT_HIGHLIGHT_PREFIX == <<[t |-> "prefix", c |-> "", k |-> 0]>>

DEFAULT_HIGHLIGHT_SUFFIX == <<[t |-> "suffix", c |-> "", k |-> 0]>>

VARIABLES
    text,                \* Matcher.text, as the units the tokenizer splits it into
    matching_words,      \* MatcherBuilder.matching_words
    crop_marker,         \* Matcher.crop_marker
    highlight_prefix,    \* Matcher.highlight_prefix
    highlight_suffix,    \* Matcher.highlight_suffix
    tokens_and_matches,  \* Matcher.tokens_and_matches: the lazily filled cache
    overflow_checks,     \* whether the build panics on integer overflow
    call,                \* the last call made on the Matcher and its options
    bounds,              \* the MatchBounds the last call computed
    formatted,           \* what the last get_formatted_text returned
    action_item,         \* keys.rs: the Option<Action> the last Sequence call returned
    sequence_call,       \* keys.rs: the last Sequence call and the Action it was made on
    visited              \* keys.rs: the values an enumeration from first() has yielded

vars == <<text, matching_words, crop_marker, highlight_prefix, highlight_suffix,
          tokens_and_matches, overflow_checks, call, bounds, formatted,
          action_item, sequence_call, visited>>

\* no Sequence call was made yet
NoItem == [kind |-> "unset", bits |-> 0]

NoSequenceCall == [op |-> "none", self |-> 0]

\* Option::None of the cache slot
NoCache == [some |-> FALSE, tokens |-> <<>>, matches |-> <<>>]

NoCall == [op |-> "none", format_options |-> FormatOptions(FALSE, CropNone)]

NoBounds == [type |-> "none", highlight_toggle |-> FALSE, indexes |-> <<>>]

NoOutput == [kind |-> "none", text |-> <<>>]

\* the options a caller may pass
AllFormatOptions ==
    { FormatOptions(h, c) : h \in BOOLEAN, c \in {CropNone} \cup 0..MaxCrop }

\* &text[from..to]: [panic, bytes]; slicing panics when from > to, to is past
\* the end or an offset is inside a character
str_slice(bytes, from, to) ==
    IF from <= to /\ to <= Len(bytes)
       /\ is_char_boundary(bytes, from) /\ is_char_boundary(bytes, to)
    THEN [panic |-> FALSE, bytes |-> SubSeq(bytes, from + 1, to)]
    ELSE [panic |-> TRUE, bytes |-> <<>>]

\* a mutant of get_or_insert_with: reading a filled slot takes the matches
\* out of it
get_or_insert_with_take(cache, txt, mw, checks) ==
    IF cache.some
    THEN {[panic |-> FALSE, cache |-> [cache EXCEPT !.matches = <<>>]]}
    ELSE {[panic |-> g.panic,
           cache |-> IF g.panic THEN cache
                     ELSE [some |-> TRUE, tokens |-> Tokenize(txt),
                           matches |-> g.matches]] :
             g \in get_matches(mw, Tokenize(txt), checks)}

\* self.tokens_and_matches.get_or_insert_with(..): the slot after the call,
\* left empty when filling it panics
get_or_insert_with(cache, txt, mw, checks) ==
    IF cache.some THEN {[panic |-> FALSE, cache |-> cache]}
    ELSE {[panic |-> g.panic,
           cache |-> IF g.panic THEN cache
                     ELSE [some |-> TRUE, tokens |-> Tokenize(txt),
                           matches |-> g.matches]] :
             g \in get_matches(mw, Tokenize(txt), checks)}

\* a mutant of text_is_empty: the early return for the empty text is gone
text_is_never_empty(txt) == FALSE

\* self.text.is_empty()
text_is_empty(txt) == txt = <<>>

\* Matcher::get_match_bounds: the [bounds, cache] it may end with
matcher_get_match_bounds(txt, mw, cache, format_options, oc) ==
    IF text_is_empty(txt) THEN {[bounds |-> Full, cache |-> cache]}
    ELSE {[bounds |-> IF filled.panic THEN Panic
                      ELSE get_match_bounds(filled.cache.tokens,
                                            filled.cache.matches,
                                            format_options, oc),
           cache |-> filled.cache] :
             filled \in get_or_insert_with(cache, txt, mw, oc)}

RECURSIVE FormatLoop(_, _, _, _, _, _, _)
\* the for loop of get_formatted_text from indexes[i] (1-based) on
FormatLoop(bytes, indexes, i, previous_index, should_be_highlighted, prefix, suffix) ==
    IF i > Len(indexes) THEN [panic |-> FALSE, out |-> <<>>]
    ELSE LET sl == str_slice(bytes, previous_index, indexes[i])
             rest == FormatLoop(bytes, indexes, i + 1, indexes[i],
                                ~should_be_highlighted, prefix, suffix)
         IN IF sl.panic \/ rest.panic THEN [panic |-> TRUE, out |-> <<>>]
            ELSE [panic |-> FALSE,
                  out |-> (IF should_be_highlighted THEN prefix ELSE <<>>)
                          \o sl.bytes
                          \o (IF should_be_highlighted THEN suffix ELSE <<>>)
                          \o rest.out]

\* a mutant of format_with_bounds: the trailing crop marker is pushed when
\* the last index is at most the length of the text
format_with_bounds_trailing_le(bytes, b, marker, prefix, suffix) ==
    LET lp == FormatLoop(bytes, b.indexes, 2, b.indexes[1], b.highlight_toggle,
                         prefix, suffix)
    IN IF lp.panic THEN [kind |-> "panic", text |-> <<>>]
       ELSE [kind |-> "owned",
             text |-> (IF marker # <<>> /\ b.indexes[1] # 0 THEN marker ELSE <<>>)
                      \o lp.out
                      \o (IF marker # <<>> /\ b.indexes[Len(b.indexes)] <= Len(bytes)
                          THEN marker ELSE <<>>)]

\* the formatting half of get_formatted_text, for MatchBounds::Formatted
format_with_bounds(bytes, b, marker, prefix, suffix) ==
    LET indexes == b.indexes
        lp == FormatLoop(bytes, indexes, 2, indexes[1], b.highlight_toggle,
                         prefix, suffix)
        last_index == indexes[Len(indexes)]
    IN IF lp.panic THEN [kind |-> "panic", text |-> <<>>]
       ELSE [kind |-> "owned",
             text |-> (IF marker # <<>> /\ indexes[1] # 0 THEN marker ELSE <<>>)
                      \o lp.out
                      \o (IF marker # <<>> /\ last_index < Len(bytes)
                          THEN marker ELSE <<>>)]

\* a mutant of nothing_to_format: the negation of highlight is dropped
nothing_to_format_no_negation(format_options) ==
    format_options.highlight /\ format_options.crop = CropNone

\* !format_options.highlight && format_options.crop.is_none()
nothing_to_format(format_options) ==
    ~format_options.highlight /\ format_options.crop = CropNone

\* the match on the bounds in get_formatted_text
formatted_for_bounds(txt, b, marker, prefix, suffix) ==
    CASE b.type = "full" -> [kind |-> "borrowed", text |-> TextBytes(txt)]
      [] b.type = "panic" -> [kind |-> "panic", text |-> <<>>]
      [] OTHER -> format_with_bounds(TextBytes(txt), b, marker, prefix, suffix)

\* Matcher::get_formatted_text: the [out, bounds, cache] it may end with
matcher_get_formatted_text(txt, mw, cache, format_options, oc, marker, prefix, suffix) ==
    IF nothing_to_format(format_options)
    THEN {[out |-> [kind |-> "borrowed", text |-> TextBytes(txt)],
           bounds |-> NoBounds, cache |-> cache]}
    ELSE {[out |-> formatted_for_bounds(txt, r.bounds, marker, prefix, suffix),
           bounds |-> r.bounds,
           cache |-> r.cache] :
             r \in matcher_get_match_bounds(txt, mw, cache, format_options, oc)}

\* a panic unwinds the request: the Matcher is not used again
Panicked == bounds.type = "panic" \/ formatted.kind = "panic"

\* strings a caller sets in place of the default delimiters, as output
\* items distinct from every text byte and from the defaults
CUSTOM_HIGHLIGHT_PREFIX == <<[t |-> "prefix", c |-> "b", k |-> 0]>>

CUSTOM_HIGHLIGHT_SUFFIX == <<[t |-> "suffix", c |-> "b", k |-> 0]>>

\* MatcherBuilder::new: no formatting string is set
builder_new == [crop_marker |-> None, highlight_prefix |-> None, highlight_suffix |-> None]

\* MatcherBuilder::crop_marker
builder_crop_marker(builder, marker) == [builder EXCEPT !.crop_marker = Some(marker)]

\* MatcherBuilder::highlight_prefix
builder_highlight_prefix(builder, prefix) == [builder EXCEPT !.highlight_prefix = Some(prefix)]

\* MatcherBuilder::highlight_suffix
builder_highlight_suffix(builder, suffix) == [builder EXCEPT !.highlight_suffix = Some(suffix)]

\* Option::map_or(default, |v| v.as_str())
map_or(default, option) == IF option.some THEN option.word ELSE default

\* the builders a Matcher is built from: the one of MatcherBuilder::new, and
\* builders with the crop marker set to the empty string, with both
\* delimiters set to strings of the caller or to the empty string, and with
\* the prefix alone set
MatcherBuilders ==
    { builder_new,
      builder_crop_marker(builder_new, <<>>),
      builder_highlight_suffix(
          builder_highlight_prefix(builder_new, CUSTOM_HIGHLIGHT_PREFIX),
          CUSTOM_HIGHLIGHT_SUFFIX),
      builder_highlight_suffix(builder_highlight_prefix(builder_new, <<>>), <<>>),
      builder_highlight_prefix(builder_new, CUSTOM_HIGHLIGHT_PREFIX) }

\* MatcherBuilder::new(..).build(text, None), in either build
Init ==
    /\ text \in Texts
    /\ overflow_checks \in BOOLEAN
    /\ \E q \in Queries :
          /\ matching_words \in MatchingWordsNew(q, overflow_checks)
          /\ ~matching_words.panic
    /\ \E builder \in MatcherBuilders :
          /\ crop_marker = map_or(DEFAULT_CROP_MARKER, builder.crop_marker)
          /\ highlight_prefix =
                map_or(DEFAULT_HIGHLIGHT_PREFIX, builder.highlight_prefix)
          /\ highlight_suffix =
                map_or(DEFAULT_HIGHLIGHT_SUFFIX, builder.highlight_suffix)
    /\ tokens_and_matches = NoCache
    /\ call = NoCall
    /\ bounds = NoBounds
    /\ formatted = NoOutput
    /\ action_item = NoItem
    /\ sequence_call = NoSequenceCall
    /\ visited = 0

GetMatchBounds ==
    /\ ~Panicked
    /\ \E fo \in AllFormatOptions :
          \E r \in matcher_get_match_bounds(text, matching_words, tokens_and_matches,
                                            fo, overflow_checks) :
             /\ call' = [op |-> "get_match_bounds", format_options |-> fo]
             /\ bounds' = r.bounds
             /\ tokens_and_matches' = r.cache
             /\ formatted' = NoOutput
    /\ UNCHANGED <<text, matching_words, crop_marker, highlight_prefix,
                   highlight_suffix, overflow_checks,
                   action_item, sequence_call, visited>>

GetFormattedText ==
    /\ ~Panicked
    /\ \E fo \in AllFormatOptions :
          \E r \in matcher_get_formatted_text(text, matching_words, tokens_and_matches,
                                              fo, overflow_checks, crop_marker,
                                              highlight_prefix, highlight_suffix) :
             /\ call' = [op |-> "get_formatted_text", format_options |-> fo]
             /\ bounds' = r.bounds
             /\ tokens_and_matches' = r.cache
             /\ formatted' = r.out
    /\ UNCHANGED <<text, matching_words, crop_marker, highlight_prefix,
                   highlight_suffix, overflow_checks,
                   action_item, sequence_call, visited>>

Next == GetMatchBounds \/ GetFormattedText

Spec == Init /\ [][Next]_vars

(***************************************************************************)
(* keys.rs: the bitflags Action and its Sequence implementation            *)
(***************************************************************************)
\* Action::FLAGS: the declared flags with their bits, in declaration order
FLAGS ==
    << [name |-> "Search", bits |-> 1],
       [name |-> "DocumentsAdd", bits |-> 2^1],
       [name |-> "DocumentsGet", bits |-> 2^2],
       [name |-> "DocumentsDelete", bits |-> 2^3],
       [name |-> "DocumentsAll", bits |-> 2^1 + 2^2 + 2^3],
       [name |-> "IndexesAdd", bits |-> 2^4],
       [name |-> "IndexesGet", bits |-> 2^5],
       [name |-> "IndexesUpdate", bits |-> 2^6],
       [name |-> "IndexesDelete", bits |-> 2^7],
       [name |-> "IndexesSwap", bits |-> 2^8],
       [name |-> "IndexesAll", bits |-> 2^4 + 2^5 + 2^6 + 2^7 + 2^8],
       [name |-> "TasksCancel", bits |-> 2^9],
       [name |-> "TasksDelete", bits |-> 2^10],
       [name |-> "TasksGet", bits |-> 2^11],
       [name |-> "TasksAll", bits |-> 2^9 + 2^10 + 2^11],
       [name |-> "SettingsGet", bits |-> 2^12],
       [name |-> "SettingsUpdate", bits |-> 2^13],
       [name |-> "SettingsAll", bits |-> 2^12 + 2^13],
       [name |-> "StatsGet", bits |-> 2^14],
       [name |-> "StatsAll", bits |-> 2^14],
       [name |-> "MetricsGet", bits |-> 2^15],
       [name |-> "MetricsAll", bits |-> 2^15],
       [name |-> "DumpsCreate", bits |-> 2^16],
       [name |-> "DumpsAll", bits |-> 2^16],
       [name |-> "SnapshotsCreate", bits |-> 2^17],
       [name |-> "SnapshotsAll", bits |-> 2^17],
       [name |-> "Version", bits |-> 2^18],
       [name |-> "KeysAdd", bits |-> 2^19],
       [name |-> "KeysGet", bits |-> 2^20],
       [name |-> "KeysUpdate", bits |-> 2^21],
       [name |-> "KeysDelete", bits |-> 2^22],
       [name |-> "ExperimentalFeaturesGet", bits |-> 2^23],
       [name |-> "ExperimentalFeaturesUpdate", bits |-> 2^24],
       [name |-> "All", bits |-> 2^25 - 1] >>

\* Option<Action>: Some(action), None, or no return at all
SomeAction(bits) == [kind |-> "Some", bits |-> bits]

NoneAction == [kind |-> "None", bits |-> 0]

ActionPanic == [kind |-> "panic", bits |-> 0]

\* Action::SERDE_MAP_ARR: the serialized name of each Action
SERDE_MAP_ARR ==
    << [serde_name |-> "search", action |-> "Search"],
       [serde_name |-> "documents.add", action |-> "DocumentsAdd"],
       [serde_name |-> "documents.get", action |-> "DocumentsGet"],
       [serde_name |-> "documents.delete", action |-> "DocumentsDelete"],
       [serde_name |-> "documents.*", action |-> "DocumentsAll"],
       [serde_name |-> "indexes.create", action |-> "IndexesAdd"],
       [serde_name |-> "indexes.get", action |-> "IndexesGet"],
       [serde_name |-> "indexes.update", action |-> "IndexesUpdate"],
       [serde_name |-> "indexes.delete", action |-> "IndexesDelete"],
       [serde_name |-> "indexes.swap", action |-> "IndexesSwap"],
       [serde_name |-> "indexes.*", action |-> "IndexesAll"],
       [serde_name |-> "tasks.cancel", action |-> "TasksCancel"],
       [serde_name |-> "tasks.delete", action |-> "TasksDelete"],
       [serde_name |-> "tasks.get", action |-> "TasksGet"],
       [serde_name |-> "tasks.*", action |-> "TasksAll"],
       [serde_name |-> "settings.get", action |-> "SettingsGet"],
       [serde_name |-> "settings.update", action |-> "SettingsUpdate"],
       [serde_name |-> "settings.*", action |-> "SettingsAll"],
       [serde_name |-> "stats.get", action |-> "StatsGet"],
       [serde_name |-> "stats.*", action |-> "StatsAll"],
       [serde_name |-> "metrics.get", action |-> "MetricsGet"],
       [serde_name |-> "metrics.*", action |-> "MetricsAll"],
       [serde_name |-> "dumps.create", action |-> "DumpsCreate"],
       [serde_name |-> "dumps.*", action |-> "DumpsAll"],
       [serde_name |-> "snapshots.create", action |-> "SnapshotsCreate"],
       [serde_name |-> "snapshots.*", action |-> "SnapshotsAll"],
       [serde_name |-> "version", action |-> "Version"],
       [serde_name |-> "keys.create", action |-> "KeysAdd"],
       [serde_name |-> "keys.get", action |-> "KeysGet"],
       [serde_name |-> "keys.update", action |-> "KeysUpdate"],
       [serde_name |-> "keys.delete", action |-> "KeysDelete"],
       [serde_name |-> "experimental.get", action |-> "ExperimentalFeaturesGet"],
       [serde_name |-> "experimental.update", action |-> "ExperimentalFeaturesUpdate"],
       [serde_name |-> "*", action |-> "All"] >>

\* the bits of the Action constant Self::<name>
action_bits(name) == FLAGS[CHOOSE n \in 1..Len(FLAGS) : FLAGS[n].name = name].bits

\* iter().find(..): the index of the first entry of SERDE_MAP_ARR whose
\* serialized name is v, or 0
find_serde_name(v) ==
    IF \E n \in 1..Len(SERDE_MAP_ARR) : SERDE_MAP_ARR[n].serde_name = v
    THEN CHOOSE n \in 1..Len(SERDE_MAP_ARR) :
            /\ SERDE_MAP_ARR[n].serde_name = v
            /\ \A k \in 1..(n - 1) : SERDE_MAP_ARR[k].serde_name # v
    ELSE 0

\* Action::get_action: None for a string that names no Action
get_action(v) ==
    IF find_serde_name(v) = 0 THEN NoneAction
    ELSE SomeAction(action_bits(SERDE_MAP_ARR[find_serde_name(v)].action))

\* the strings an Action is read from: every serialized name, a string
\* that names no Action, and the empty string
ActionNames ==
    {SERDE_MAP_ARR[n].serde_name : n \in 1..Len(SERDE_MAP_ARR)} \cup {"documents", ""}

\* Action::get_potential_index: the index of the most significant bit set
get_potential_index(self) ==
    IF self = 0 THEN 0
    ELSE CHOOSE i \in 0..31 : 2^i <= self /\ self < 2^(i + 1)

\* Sequence::CARDINALITY
CARDINALITY == Len(FLAGS)

RECURSIVE NextLoop(_, _)
\* the loop of next from a potential_next_index (0-based) on
NextLoop(self, potential_next_index) ==
    IF potential_next_index < Len(FLAGS)
    THEN IF FLAGS[potential_next_index + 1].bits > self
         THEN SomeAction(FLAGS[potential_next_index + 1].bits)
         ELSE NextLoop(self, potential_next_index + 1)
    ELSE NoneAction

\* Sequence::next
sequence_next(self) == NextLoop(self, get_potential_index(self) + 1)

RECURSIVE PreviousLoop(_, _, _)
\* the loop of previous from a potential_previous_index (0-based) on
PreviousLoop(self, potential_previous_index, previous_item) ==
    IF potential_previous_index < Len(FLAGS)
    THEN IF FLAGS[potential_previous_index + 1].bits > self
         THEN previous_item
         ELSE PreviousLoop(self, potential_previous_index + 1,
                           SomeAction(FLAGS[potential_previous_index + 1].bits))
    ELSE NoneAction

\* Sequence::previous: get_potential_index() - 2 is a usize subtraction
sequence_previous(self, checks) ==
    IF underflows(get_potential_index(self), 2) /\ checks THEN ActionPanic
    ELSE PreviousLoop(self, usize_sub(get_potential_index(self), 2), NoneAction)

\* Sequence::first
sequence_first == IF FLAGS = <<>> THEN NoneAction ELSE SomeAction(FLAGS[1].bits)

\* Sequence::last
sequence_last == IF FLAGS = <<>> THEN NoneAction ELSE SomeAction(FLAGS[Len(FLAGS)].bits)

\* the variables of the Matcher, which the calls on Action leave alone
matcher_vars ==
    <<text, matching_words, crop_marker, highlight_prefix, highlight_suffix,
      tokens_and_matches, overflow_checks, call, bounds, formatted>>

\* no Action yet, in either build; no Matcher is in use
KeysInit ==
    /\ action_item = NoItem
    /\ sequence_call = NoSequenceCall
    /\ visited = 0
    /\ overflow_checks \in BOOLEAN
    /\ text = <<>>
    /\ matching_words \in MatchingWordsNew(QueryEmpty, overflow_checks)
    /\ crop_marker = DEFAULT_CROP_MARKER
    /\ highlight_prefix = DEFAULT_HIGHLIGHT_PREFIX
    /\ highlight_suffix = DEFAULT_HIGHLIGHT_SUFFIX
    /\ tokens_and_matches = NoCache
    /\ call = NoCall
    /\ bounds = NoBounds
    /\ formatted = NoOutput

\* an Action is read from its name
CallGetAction ==
    /\ action_item.kind # "panic"
    /\ \E v \in ActionNames : action_item' = get_action(v)
    /\ sequence_call' = [op |-> "get_action", self |-> 0]
    /\ visited' = 0
    /\ UNCHANGED matcher_vars

\* Action::first(): an enumeration starts
CallFirst ==
    /\ action_item.kind # "panic"
    /\ action_item' = sequence_first
    /\ sequence_call' = [op |-> "first", self |-> 0]
    /\ visited' = IF sequence_first.kind = "Some" THEN 1 ELSE 0
    /\ UNCHANGED matcher_vars

\* Action::last()
CallLast ==
    /\ action_item.kind # "panic"
    /\ action_item' = sequence_last
    /\ sequence_call' = [op |-> "last", self |-> 0]
    /\ visited' = 0
    /\ UNCHANGED matcher_vars

\* next() on the Action held: an enumeration under way yields one more value
\* or ends
CallNext ==
    /\ action_item.kind = "Some"
    /\ action_item' = sequence_next(action_item.bits)
    /\ sequence_call' = [op |-> "next", self |-> action_item.bits]
    /\ visited' = IF visited > 0 /\ sequence_next(action_item.bits).kind = "Some"
                  THEN visited + 1 ELSE visited
    /\ UNCHANGED matcher_vars

\* previous() on the Action held
CallPrevious ==
    /\ action_item.kind = "Some"
    /\ action_item' = sequence_previous(action_item.bits, overflow_checks)
    /\ sequence_call' = [op |-> "previous", self |-> action_item.bits]
    /\ visited' = 0
    /\ UNCHANGED matcher_vars

KeysNext == CallGetAction \/ CallFirst \/ CallLast \/ CallNext \/ CallPrevious

KeysSpec == KeysInit /\ [][KeysNext]_vars

(***************************************************************************)
(* match_bounds::get_match_bounds and get_best_match_interval as functions *)
(* of the token list and the match list they are handed.                   *)
(***************************************************************************)
\* a text of separators only: it is not empty and holds no word
OnlySeparators(txt) == txt # <<>> /\ \A i \in 1..Len(txt) : txt[i].sep

\* the token lists a caller may hand over for a text: the tokens of the
\* text, and for a text of separators only also the empty token stream
TokenStreams(txt) ==
    {Tokenize(txt)} \cup (IF OnlySeparators(txt) THEN {<<>>} ELSE {})

\* a token list of a text and the matches of a query in it are at hand, in
\* either build; no call yet
BoundsInit ==
    /\ text \in Texts
    /\ overflow_checks \in BOOLEAN
    /\ \E q \in Queries :
          /\ matching_words \in MatchingWordsNew(q, overflow_checks)
          /\ ~matching_words.panic
    /\ \E tokens \in TokenStreams(text) :
          \E g \in get_matches(matching_words, tokens, overflow_checks) :
             /\ ~g.panic
             /\ tokens_and_matches =
                   [some |-> TRUE, tokens |-> tokens, matches |-> g.matches]
    /\ crop_marker = DEFAULT_CROP_MARKER
    /\ highlight_prefix = DEFAULT_HIGHLIGHT_PREFIX
    /\ highlight_suffix = DEFAULT_HIGHLIGHT_SUFFIX
    /\ call = NoCall
    /\ bounds = NoBounds
    /\ formatted = NoOutput
    /\ action_item = NoItem
    /\ sequence_call = NoSequenceCall
    /\ visited = 0

\* match_bounds::get_match_bounds(tokens, matches, .., format_options)
CallGetMatchBounds ==
    /\ \E fo \in AllFormatOptions :
          /\ call' = [op |-> "get_match_bounds", format_options |-> fo]
          /\ bounds' = get_match_bounds(tokens_and_matches.tokens,
                                        tokens_and_matches.matches, fo,
                                        overflow_checks)
    /\ UNCHANGED <<text, matching_words, crop_marker, highlight_prefix,
                   highlight_suffix, tokens_and_matches, overflow_checks,
                   formatted, action_item, sequence_call, visited>>

\* the interval a call of get_best_match_interval returned, kept as the
\* value the last call returned
Interval(range) == [type |-> "interval", highlight_toggle |-> FALSE, indexes |-> range]

\* the value a call of get_best_match_interval ends with
returned_interval(r) == IF r.panic THEN Panic ELSE Interval(r.range)

\* get_best_match_interval(matches, crop_size)
CallGetBestMatchInterval ==
    /\ \E crop_size \in 1..MaxCrop :
          /\ call' = [op |-> "get_best_match_interval",
                      format_options |-> FormatOptions(FALSE, crop_size)]
          /\ bounds' = returned_interval(
                           get_best_match_interval(tokens_and_matches.matches,
                                                   crop_size, overflow_checks))
    /\ UNCHANGED <<text, matching_words, crop_marker, highlight_prefix,
                   highlight_suffix, tokens_and_matches, overflow_checks,
                   formatted, action_item, sequence_call, visited>>

BoundsNext == CallGetMatchBounds \/ CallGetBestMatchInterval

BoundsSpec == BoundsInit /\ [][BoundsNext]_vars

(***************************************************************************)
(* Properties                                                              *)
(***************************************************************************)
\* the text bytes of an output, its crop markers and highlight delimiters removed
TextOnly(out) == SelectSeq(out, LAMBDA x : x.t = "b")

\* whether some item of an output is a crop marker
HasCropMarker(out) == \E i \in 1..Len(out) : out[i].t = "crop"

HasHighlight(out) == \E i \in 1..Len(out) : out[i].t \in {"prefix", "suffix"}

WeaklyIncreasing(s) == \A i \in 1..(Len(s) - 1) : s[i] <= s[i + 1]

LastOf(s) == s[Len(s)]

CachedMatches == tokens_and_matches.matches

CachedTokens == tokens_and_matches.tokens

\* C1: whenever get_match_bounds returns Formatted, for the match list as
\* get_matches returns it, the indexes are weakly increasing and none is past
\* the end of the text
C1_IndexesSound ==
    bounds.type = "formatted" =>
        /\ WeaklyIncreasing(bounds.indexes)
        /\ \A i \in 1..Len(bounds.indexes) :
              bounds.indexes[i] <= Len(TextBytes(text))

\* C2: a match made by a prefix entry covers exactly the first
\* original_char_count characters of the token's own source text, and its end
\* offset is on a character boundary of the text
C2_PrefixSpan ==
    tokens_and_matches.some =>
        \A n \in 1..Len(CachedMatches) :
            LET m == CachedMatches[n]
                i == m.token_position_range[1]
                r == try_get_word_match(matching_words, CachedTokens, i, overflow_checks)
            IN (m.kind = "Word" /\ r.prefix) =>
                  /\ m.byte_len = str_len(SubSeq(text[i + 1].src, 1, m.char_count))
                  /\ is_char_boundary(TextBytes(text),
                                      CachedTokens[i + 1].byte_start + m.byte_len)

\* C3: no call of get_match_bounds or get_formatted_text fails at run time
C3_NeverFails == ~Panicked

\* C4, the state half: get_formatted_text with crop None returns the text byte
\* for byte when highlight is false, and when highlight is true and the match
\* list is empty
C4_Verbatim ==
    (/\ call.op = "get_formatted_text"
     /\ call.format_options.crop = CropNone
     /\ \/ ~call.format_options.highlight
        \/ text = <<>>
        \/ tokens_and_matches.some /\ CachedMatches = <<>>)
    => formatted = [kind |-> "borrowed", text |-> TextBytes(text)]

\* C4, the step half: get_formatted_text with highlight false and crop None
\* leaves the cache slot as it was, so an empty slot stays empty
C4_NoTokenizing ==
    (/\ call'.op = "get_formatted_text"
     /\ ~call'.format_options.highlight
     /\ call'.format_options.crop = CropNone)
    => tokens_and_matches' = tokens_and_matches

\* C4: with crop None and nothing to highlight the output is the input, and
\* with highlight false it is returned without tokenizing
C4_Identity == [](C4_Verbatim) /\ [][C4_NoTokenizing]_vars

\* C4 happens: highlight false and crop None on a text whose tokens would
\* match, returned as it is with the cache slot still empty
C4_Witness ==
    /\ call = [op |-> "get_formatted_text",
               format_options |-> FormatOptions(FALSE, CropNone)]
    /\ \E g \in get_matches(matching_words, Tokenize(text), overflow_checks) :
          g.matches # <<>>
    /\ ~tokens_and_matches.some
    /\ formatted.text = TextBytes(text)

\* C5: the output of get_formatted_text, its crop markers and highlight
\* delimiters removed, is exactly text[indexes[0]..indexes[last]]
C5_RoundTrip ==
    (call.op = "get_formatted_text" /\ bounds.type = "formatted") =>
        /\ formatted.kind = "owned"
        /\ TextOnly(formatted.text) =
              SubSeq(TextBytes(text), bounds.indexes[1] + 1, LastOf(bounds.indexes))

\* C6: with highlight true and crop None or Some(0), the first index is 0, the
\* last is the text's length, the output has no crop marker and, its highlight
\* delimiters removed, is the whole text
C6_HighlightOnlyWhole ==
    (/\ call.op # "none"
     /\ call.format_options.highlight
     /\ call.format_options.crop \in {CropNone, 0})
    => /\ bounds.type = "formatted" =>
             /\ bounds.indexes[1] = 0
             /\ LastOf(bounds.indexes) = Len(TextBytes(text))
       /\ call.op = "get_formatted_text" =>
             /\ formatted.kind \in {"borrowed", "owned"}
             /\ ~HasCropMarker(formatted.text)
             /\ TextOnly(formatted.text) = TextBytes(text)

\* the token indexes a match covers
TokenRange(m) == m.token_position_range[1]..m.token_position_range[2]

\* C7: any two distinct matches returned by get_matches cover disjoint
\* token-index ranges
C7_NonOverlap ==
    tokens_and_matches.some =>
        \A i, j \in 1..Len(CachedMatches) :
            i # j => TokenRange(CachedMatches[i]) \cap TokenRange(CachedMatches[j]) = {}

\* C7 happens: the finder returned a phrase match over two tokens and another
\* match beside it
C7_Witness ==
    /\ tokens_and_matches.some
    /\ Len(CachedMatches) >= 2
    /\ \E i \in 1..Len(CachedMatches) :
          /\ CachedMatches[i].kind = "Phrase"
          /\ Cardinality(TokenRange(CachedMatches[i])) >= 2

\* C8: the match list returned by get_matches is sorted by first token
\* position, strictly ascending
C8_SortedByToken ==
    tokens_and_matches.some =>
        \A i \in 1..(Len(CachedMatches) - 1) :
            CachedMatches[i].token_position_range[1]
                < CachedMatches[i + 1].token_position_range[1]

\* the same call with crop None instead, from the same Matcher state
WithCropNone(fo) == FormatOptions(fo.highlight, CropNone)

\* C9: get_match_bounds and get_formatted_text called with crop Some(0) return
\* exactly what they return with crop None
C9_CropZeroIsNone ==
    call.format_options.crop = 0 =>
        /\ call.op = "get_match_bounds" =>
              \E r \in matcher_get_match_bounds(
                           text, matching_words, tokens_and_matches,
                           WithCropNone(call.format_options), overflow_checks) :
                  bounds = r.bounds
        /\ call.op = "get_formatted_text" =>
              \E r \in matcher_get_formatted_text(
                              text, matching_words, tokens_and_matches,
                              WithCropNone(call.format_options), overflow_checks,
                              crop_marker, highlight_prefix, highlight_suffix) :
                  formatted = r.out

\* C9 happens: get_formatted_text with highlight and crop Some(0) on a text
\* with a match returned a highlighted text
C9_Witness ==
    /\ call = [op |-> "get_formatted_text", format_options |-> FormatOptions(TRUE, 0)]
    /\ bounds.type = "formatted"
    /\ formatted.kind = "owned"
    /\ HasHighlight(formatted.text)

\* C10: for the empty text get_match_bounds returns Full, get_formatted_text
\* returns the empty string with no crop marker and no highlight delimiter, and
\* the cache slot is never filled
C10_EmptyText ==
    (text = <<>> /\ call.op # "none") =>
        /\ ~tokens_and_matches.some
        /\ call.op = "get_match_bounds" => bounds = Full
        /\ call.op = "get_formatted_text" =>
              /\ formatted.kind \in {"borrowed", "owned"}
              /\ formatted.text = <<>>

\* C10 happens: get_formatted_text with highlight and a crop size on the empty
\* text, for a query with words and phrases
C10_Witness ==
    /\ text = <<>>
    /\ matching_words.located_matching_phrases # <<>>
    /\ call = [op |-> "get_formatted_text", format_options |-> FormatOptions(TRUE, 2)]
    /\ bounds = Full
    /\ formatted.text = <<>>

\* a text that is not empty and has no word: separators only
\* the number of words (non-separator tokens) lying in bytes from..to
WordsIn(tokens, from, to) ==
    Cardinality({i \in 1..Len(tokens) :
                    /\ ~tokens[i].sep
                    /\ tokens[i].byte_start >= from
                    /\ tokens[i].byte_end <= to})

\* the number of words of a token list
WordCount(tokens) == Cardinality({i \in 1..Len(tokens) : ~tokens[i].sep})

\* text[from..to]
BytesFromTo(txt, from, to) == SubSeq(TextBytes(txt), from + 1, to)

\* C11: for a non-empty text that holds no word, its token stream being
\* separators only or empty, no call fails and the match list is empty;
\* with crop Some(n), n >= 1, get_match_bounds returns Formatted with
\* indexes [0, text.len()] and the output is the text with no crop marker;
\* with highlight only the bounds are Full
C11_NoWord ==
    (/\ OnlySeparators(text)
     /\ tokens_and_matches.some
     /\ call.op \in {"get_match_bounds", "get_formatted_text"}) =>
        /\ ~Panicked
        /\ CachedMatches = <<>>
        /\ call.format_options.crop >= 1 =>
              /\ bounds = Formatted(FALSE, <<0, Len(TextBytes(text))>>)
              /\ call.op = "get_formatted_text" =>
                    /\ formatted.kind = "owned"
                    /\ formatted.text = TextBytes(text)
        /\ (call.format_options.highlight
            /\ call.format_options.crop \in {CropNone, 0}) => bounds = Full

\* C12: with crop Some(n), n >= 1, the region text[indexes[0]..indexes[last]]
\* that get_match_bounds returns contains at most n words
C12_AtMostCropWords ==
    (call.format_options.crop >= 1 /\ bounds.type = "formatted") =>
        WordsIn(CachedTokens, bounds.indexes[1], LastOf(bounds.indexes))
            <= call.format_options.crop

\* the number of words in the window a MatchBounds stands for: the whole
\* text for Full
WindowWords(txt, b) ==
    IF b.type = "formatted"
    THEN WordsIn(Tokenize(txt), b.indexes[1], LastOf(b.indexes))
    ELSE WordCount(Tokenize(txt))

\* the bounds the same Matcher may return for the same highlight flag and
\* crop size m
BoundsForCrop(m) ==
    { r.bounds :
        r \in matcher_get_match_bounds(text, matching_words, tokens_and_matches,
                                       FormatOptions(call.format_options.highlight, m),
                                       overflow_checks) }

\* C13: for crop sizes 1 <= n < m the window returned for crop Some(m) has
\* at least as many words as the window returned for crop Some(n)
C13_MonotoneCrop ==
    (call.format_options.crop >= 1 /\ bounds.type # "none") =>
        \A m \in (call.format_options.crop + 1)..MaxCrop :
            /\ bounds.type # "panic"
            /\ \A b \in BoundsForCrop(m) :
                  /\ b.type # "panic"
                  /\ WindowWords(text, b) >= WindowWords(text, bounds)

\* C14: with an empty match list and crop Some(n), n >= 1, the bounds are
\* Formatted, not highlighted, with indexes [0, e]; when the text has more
\* than n words, text[0..e] holds exactly the first n words, e is the start
\* of a token before the end of the text and the output ends with the crop
\* marker; otherwise e is the end of the text and the output is the text
C14_NoMatchCrop ==
    (/\ tokens_and_matches.some
     /\ CachedMatches = <<>>
     /\ call.format_options.crop >= 1) =>
        /\ bounds.type = "formatted"
        /\ ~bounds.highlight_toggle
        /\ Len(bounds.indexes) = 2
        /\ bounds.indexes[1] = 0
        /\ LET e == bounds.indexes[2]
           IN IF WordCount(CachedTokens) > call.format_options.crop
              THEN /\ WordsIn(CachedTokens, 0, e) = call.format_options.crop
                   /\ \E i \in 1..Len(CachedTokens) : CachedTokens[i].byte_start = e
                   /\ e < Len(TextBytes(text))
                   /\ call.op = "get_formatted_text" =>
                         formatted.text = BytesFromTo(text, 0, e) \o crop_marker
              ELSE /\ e = Len(TextBytes(text))
                   /\ call.op = "get_formatted_text" =>
                         formatted.text = TextBytes(text)

\* what the last call may return on a Matcher freshly built for the same text
FreshBounds ==
    { r.bounds :
        r \in matcher_get_match_bounds(text, matching_words, NoCache,
                                       call.format_options, overflow_checks) }

FreshFormatted ==
    matcher_get_formatted_text(text, matching_words, NoCache, call.format_options,
                               overflow_checks, crop_marker, highlight_prefix,
                               highlight_suffix)

\* C15, the state half: a filled cache slot holds the tokens and matches of
\* the text, and the last call returned what it returns on a fresh Matcher
C15_SameAsFresh ==
    /\ tokens_and_matches.some =>
          /\ CachedTokens = Tokenize(text)
          /\ [panic |-> FALSE, matches |-> CachedMatches]
                \in get_matches(matching_words, Tokenize(text), overflow_checks)
    /\ call.op = "get_match_bounds" => bounds \in FreshBounds
    /\ call.op = "get_formatted_text" =>
          \E r \in FreshFormatted : bounds = r.bounds /\ formatted = r.out

\* C15, the step half: a filled cache slot is never modified
C15_FilledOnce == tokens_and_matches.some => tokens_and_matches' = tokens_and_matches

\* C15: over any sequence of calls on one Matcher the cache slot is filled at
\* most once and never modified afterwards, and every call returns what the
\* same call returns on a freshly built Matcher
C15_Cache == [](C15_SameAsFresh) /\ [][C15_FilledOnce]_vars

\* C15 happens: a call that leaves the slot alone, on a Matcher whose slot an
\* earlier call filled with matches
C15_Witness ==
    /\ tokens_and_matches.some
    /\ CachedMatches # <<>>
    /\ call = [op |-> "get_formatted_text",
               format_options |-> FormatOptions(FALSE, CropNone)]
    /\ formatted.text = TextBytes(text)

\* the last call handed the cached, non-empty match list and a crop size to
\* the best-interval selector
SelectorCalled ==
    /\ tokens_and_matches.some
    /\ CachedMatches # <<>>
    /\ call.format_options.crop >= 1

\* what the selector returned to the last call
SelectorResult ==
    get_best_match_interval(CachedMatches, call.format_options.crop, overflow_checks)

\* matches[i..=j] (0-based) spans at most crop_size words
Feasible(matches, i, j, crop_size) ==
    /\ i <= j
    /\ get_last_word_pos(matches[j + 1]) - get_first_word_pos(matches[i + 1])
          < crop_size

\* the score of matches[i..=j] (0-based)
IntervalScore(matches, i, j) == get_score(SubSeq(matches, i + 1, j + 1), FALSE).score

\* the lexicographic order of scores, written out: a < b
ScoreLess(a, b) ==
    \E k \in 1..3 : a[k] < b[k] /\ \A l \in 1..(k - 1) : a[l] = b[l]

\* C16: get_best_match_interval returns an interval [first, last] that is
\* within crop_size words whenever some interval is, and no interval within
\* crop_size words has a strictly greater score
C16_BestIsMaximal ==
    SelectorCalled =>
        LET r == SelectorResult
            n == Len(CachedMatches)
            crop == call.format_options.crop
        IN /\ ~r.panic
           /\ r.range[1] <= r.range[2]
           /\ (\E i, j \in 0..(n - 1) : Feasible(CachedMatches, i, j, crop))
                 => Feasible(CachedMatches, r.range[1], r.range[2], crop)
           /\ \A i, j \in 0..(n - 1) :
                 Feasible(CachedMatches, i, j, crop) =>
                    ~ScoreLess(IntervalScore(CachedMatches, r.range[1], r.range[2]),
                               IntervalScore(CachedMatches, i, j))

\* whether get_formatted_text is to push the crop marker before the text
LeadingMarkerDue == bounds.indexes[1] > 0 /\ crop_marker # <<>>

\* whether it is to push the crop marker after the text
TrailingMarkerDue ==
    LastOf(bounds.indexes) < Len(TextBytes(text)) /\ crop_marker # <<>>

\* the output between its first item, when a leading marker is due, and its
\* last item, when a trailing marker is due
BetweenMarkers(out) ==
    SubSeq(out, IF LeadingMarkerDue THEN 2 ELSE 1,
           IF TrailingMarkerDue THEN Len(out) - 1 ELSE Len(out))

\* C17: the text get_formatted_text returns for Formatted bounds starts with
\* a crop marker if and only if indexes[0] > 0 and the marker is not empty,
\* ends with one if and only if the last index is below the text's length and
\* the marker is not empty, has no crop marker elsewhere, and without its
\* markers and highlight delimiters is text[indexes[0]..indexes[last]], also
\* when the marker is empty
C17_CropMarkers ==
    (/\ call.op = "get_formatted_text"
     /\ bounds.type = "formatted"
     /\ formatted.kind = "owned") =>
        /\ LeadingMarkerDue => Head(formatted.text).t = "crop"
        /\ TrailingMarkerDue => LastOf(formatted.text).t = "crop"
        /\ ~HasCropMarker(BetweenMarkers(formatted.text))
        /\ TextOnly(formatted.text) =
              BytesFromTo(text, bounds.indexes[1], LastOf(bounds.indexes))

\* C17 happens: a crop window that starts inside the text and reaches its
\* end, returned with a leading crop marker and no trailing one
C17_Witness ==
    /\ call.op = "get_formatted_text"
    /\ bounds.type = "formatted"
    /\ formatted.kind = "owned"
    /\ LeadingMarkerDue
    /\ LastOf(bounds.indexes) = Len(TextBytes(text))
    /\ Head(formatted.text).t = "crop"
    /\ LastOf(formatted.text).t = "b"

\* the scores of the intervals the selector scored, in the order it scored them
ScoredScores ==
    LET c == scored_intervals(CachedMatches, call.format_options.crop, overflow_checks)
    IN [k \in 1..Len(c) |-> IntervalScore(CachedMatches, c[k][1], c[k][2])]

QueryPositions(ms) ==
    UNION { get_query_position(ms[k])[1]..get_query_position(ms[k])[2] :
            k \in 1..Len(ms) }

\* C19: for every slice of the match list, which is ordered by
\* query_position_range[0], the uniqueness score of get_score is the number of
\* distinct query positions the slice covers
C19_Uniqueness ==
    tokens_and_matches.some =>
        \A i, j \in 1..Len(CachedMatches) :
            i <= j =>
               get_score(SubSeq(CachedMatches, i, j), FALSE).score[1]
                  = Cardinality(QueryPositions(SubSeq(CachedMatches, i, j)))

RECURSIVE PairDistances(_)
\* the sum over the adjacent pairs of a slice of min(7, next.first_word -
\* prev.last_word)
PairDistances(ms) ==
    IF Len(ms) < 2 THEN 0
    ELSE Min(7, get_first_word_pos(ms[2]) - get_last_word_pos(ms[1]))
         + PairDistances(Tail(ms))

RECURSIVE PhraseWidths(_)
\* the sum over the phrase matches of a slice of last_word - first_word
PhraseWidths(ms) ==
    IF ms = <<>> THEN 0
    ELSE (IF Head(ms).kind = "Phrase"
          THEN get_last_word_pos(Head(ms)) - get_first_word_pos(Head(ms)) ELSE 0)
         + PhraseWidths(Tail(ms))

\* the slice of the cached matches an interval stands for
ScoredSlice(interval) == SubSeq(CachedMatches, interval[1] + 1, interval[2] + 1)

\* C20: for every slice the selector scores, next.first_word - prev.last_word
\* is at least 1 for each adjacent pair, and the distance score is minus the
\* sum of min(7, that difference) over the pairs minus the sum of last_word -
\* first_word over the phrase matches
C20_Distance ==
    SelectorCalled =>
        LET c == scored_intervals(CachedMatches, call.format_options.crop, overflow_checks)
        IN \A k \in 1..Len(c) :
              /\ \A p \in 1..(Len(ScoredSlice(c[k])) - 1) :
                    get_first_word_pos(ScoredSlice(c[k])[p + 1])
                       - get_last_word_pos(ScoredSlice(c[k])[p]) >= 1
              /\ get_score(ScoredSlice(c[k]), FALSE).score[2]
                    = 0 - PairDistances(ScoredSlice(c[k]))
                        - PhraseWidths(ScoredSlice(c[k]))

RECURSIVE WordTokensFrom(_, _)
\* the indexes (0-based) of the non-separator tokens a cursor has left
WordTokensFrom(tokens, cur) ==
    IF cur >= Len(tokens) THEN <<>>
    ELSE (IF tokens[cur + 1].sep THEN <<>> ELSE <<cur>>)
         \o WordTokensFrom(tokens, cur + 1)

\* a Some(word) slot needs the lemma to be the word, a None slot a stop word
SlotMatches(slot, tok) == IF slot.some THEN tok.lemma = slot.word ELSE tok.stop

\* all the slots of a phrase match the next non-separator tokens of a cursor
PhraseMatchesAt(slots, tokens, cur) ==
    /\ slots # <<>>
    /\ Len(WordTokensFrom(tokens, cur)) >= Len(slots)
    /\ \A n \in 1..Len(slots) :
          SlotMatches(slots[n], tokens[WordTokensFrom(tokens, cur)[n] + 1])

\* the first and last token of the tokens a phrase matches at a cursor
PhraseSpanAt(slots, tokens, cur) ==
    << WordTokensFrom(tokens, cur)[1], WordTokensFrom(tokens, cur)[Len(slots)] >>

\* some entry of the words list matches a token: a prefix entry by
\* starts_with, when the word has original_char_count characters, any other
\* entry by equality
WordTableMatches(mw, tok) ==
    \E n \in 1..Len(mw.located_matching_words) :
        LET lw == mw.located_matching_words[n]
        IN \E v \in 1..Len(lw.value) :
              IF lw.is_prefix
              THEN starts_with(tok.lemma, lw.value[v])
                   /\ lw.original_char_count <= Len(lw.value[v])
              ELSE tok.lemma = lw.value[v]

\* the phrases of the table that match in full at a cursor
FullPhrasesAt(cur) ==
    { n \in 1..Len(matching_words.located_matching_phrases) :
        PhraseMatchesAt(matching_words.located_matching_phrases[n].value,
                        CachedTokens, cur) }

\* a match of the given kind starting at a token was emitted
EmittedAt(kind, token) ==
    \E n \in 1..Len(CachedMatches) :
        /\ CachedMatches[n].kind = kind
        /\ CachedMatches[n].token_position_range[1] = token

\* C21: at every cursor get_matches visits with a word left: when some phrase
\* matches in full there, a Phrase match covering the tokens of such a phrase
\* is emitted and no token of it is emitted as a Word match; when none does,
\* no Phrase match starts there and a Word match is emitted for the current
\* token exactly when the words list matches it
C21_PhrasesFirst ==
    tokens_and_matches.some =>
        \A c \in 1..Len(visited_cursors(matching_words, CachedTokens, overflow_checks)) :
            LET cur == visited_cursors(matching_words, CachedTokens, overflow_checks)[c]
                w == WordTokensFrom(CachedTokens, cur)
                phrases == matching_words.located_matching_phrases
            IN w # <<>> =>
                 IF FullPhrasesAt(cur) # {}
                 THEN \E n \in FullPhrasesAt(cur) :
                        LET span == PhraseSpanAt(phrases[n].value, CachedTokens, cur)
                        IN /\ \E m \in 1..Len(CachedMatches) :
                                 /\ CachedMatches[m].kind = "Phrase"
                                 /\ CachedMatches[m].token_position_range = span
                           /\ \A t \in span[1]..span[2] : ~EmittedAt("Word", t)
                 ELSE /\ ~EmittedAt("Phrase", w[1])
                      /\ EmittedAt("Word", w[1])
                            <=> WordTableMatches(matching_words, CachedTokens[w[1] + 1])

\* C21 happens: a phrase of two slots occurs in part only at the first token,
\* where no Phrase match starts, and in full from the second token on
C21_Witness ==
    /\ tokens_and_matches.some
    /\ FullPhrasesAt(0) = {}
    /\ \E n \in 1..Len(matching_words.located_matching_phrases) :
          LET slots == matching_words.located_matching_phrases[n].value
          IN /\ Len(slots) = 2
             /\ slots[1].some
             /\ CachedTokens[1].lemma = slots[1].word
             /\ n \in FullPhrasesAt(1)
    /\ ~EmittedAt("Phrase", 0)
    /\ EmittedAt("Phrase", 1)

\* the number of non-separator tokens between two cursors
WordsBetween(tokens, from, to) ==
    Cardinality({j \in (from + 1)..to : ~tokens[j].sep})

\* C22: at every cursor, try_get_phrase_match returning None leaves the
\* cursor where it was, and returning a Phrase match it has advanced the
\* cursor by the k non-separator tokens of a phrase of k slots that matches
\* there, the match spanning k - 1 word positions
C22_PhraseCursor ==
    tokens_and_matches.some =>
        \A cur \in 0..Len(CachedTokens) :
            LET r == try_get_phrase_match(matching_words, CachedTokens, cur)
                phrases == matching_words.located_matching_phrases
            IN IF ~r.found THEN r.cursor = cur
               ELSE \E n \in FullPhrasesAt(cur) :
                       /\ r.match.query_position_range = phrases[n].position
                       /\ WordsBetween(CachedTokens, cur, r.cursor)
                             = Len(phrases[n].value)
                       /\ r.match.word_position_range[2]
                             - r.match.word_position_range[1]
                             = Len(phrases[n].value) - 1

\* C22 happens: at the start of a text the first phrase of the table fails
\* on its second slot and the second phrase matches two tokens with a
\* separator between them
C22_Witness ==
    /\ tokens_and_matches.some
    /\ Len(matching_words.located_matching_phrases) >= 2
    /\ Len(CachedTokens) = 3
    /\ CachedTokens[2].sep
    /\ ~PhraseMatchesAt(matching_words.located_matching_phrases[1].value,
                        CachedTokens, 0)
    /\ try_get_phrase_match(matching_words, CachedTokens, 0).found
    /\ try_get_phrase_match(matching_words, CachedTokens, 0).cursor = 3
    /\ ~try_get_phrase_match(matching_words, CachedTokens, 3).found

\* the match of a token was found by a prefix entry of the words list
ByPrefix(m) ==
    /\ m.kind = "Word"
    /\ try_get_word_match(matching_words, CachedTokens,
                          m.token_position_range[1], overflow_checks).prefix

\* the source bytes the tokens of a match cover, byte_end being exclusive
CoveredBytes(m) ==
    CachedTokens[m.token_position_range[2] + 1].byte_end
        - CachedTokens[m.token_position_range[1] + 1].byte_start

\* C23: the byte_len of every match that is not a prefix match is the number
\* of source bytes its tokens cover, so that byte_start + byte_len is the
\* byte_end of its last token
C23_ByteLen ==
    tokens_and_matches.some =>
        \A n \in 1..Len(CachedMatches) :
            ~ByPrefix(CachedMatches[n]) =>
                /\ CachedMatches[n].byte_len = CoveredBytes(CachedMatches[n])
                /\ get_match_byte_position_range(CachedTokens, CachedMatches[n])[2]
                      = CachedTokens[CachedMatches[n].token_position_range[2] + 1].byte_end

\* the words list is ordered: no prefix entry before a non-prefix entry, and
\* entries with the same flag by descending width of the query range
WordsListOrdered(lws) ==
    \A i, j \in 1..Len(lws) :
        i < j =>
            /\ ~(lws[i].is_prefix /\ ~lws[j].is_prefix)
            /\ lws[i].is_prefix = lws[j].is_prefix =>
                  lws[i].position[2] - lws[i].position[1]
                      >= lws[j].position[2] - lws[j].position[1]

\* the non-prefix entries of the words list with a word equal to a lemma
ExactEntries(lws, lemma) ==
    { n \in 1..Len(lws) :
        ~lws[n].is_prefix /\ \E v \in 1..Len(lws[n].value) : lws[n].value[v] = lemma }

\* the prefix entries of the words list with a word a lemma starts with
PrefixEntries(lws, lemma) ==
    { n \in 1..Len(lws) :
        lws[n].is_prefix
        /\ \E v \in 1..Len(lws[n].value) : starts_with(lemma, lws[n].value[v]) }

\* C24: the words list is ordered, non-prefix entries first and wider query
\* ranges first among equals; a match not found by prefix is found by a
\* non-prefix entry with a word equal to the lemma; and a token whose lemma
\* equals a word of a non-prefix entry and starts with a word of a prefix
\* entry is reported with the query position of the non-prefix entry and
\* the length of the whole token
C24_ExactBeforePrefix ==
    tokens_and_matches.some =>
        /\ WordsListOrdered(matching_words.located_matching_words)
        /\ \A i \in 0..(Len(CachedTokens) - 1) :
              LET lws == matching_words.located_matching_words
                  tok == CachedTokens[i + 1]
                  r == try_get_word_match(matching_words, CachedTokens, i, overflow_checks)
              IN ~tok.sep =>
                   /\ (r.found /\ ~r.prefix) =>
                         \E n \in ExactEntries(lws, tok.lemma) :
                             r.match.query_position_range = lws[n].position
                   /\ (ExactEntries(lws, tok.lemma) # {}
                         /\ PrefixEntries(lws, tok.lemma) # {}) =>
                         /\ r.found
                         /\ \E n \in ExactEntries(lws, tok.lemma) :
                               r.match.query_position_range = lws[n].position
                         /\ r.match.byte_len = tok.byte_end - tok.byte_start
                         /\ r.match.char_count = tok.char_end - tok.char_start

\* the call asks for highlights and there are matches to highlight
HighlightCall ==
    /\ call.op # "none"
    /\ call.format_options.highlight
    /\ tokens_and_matches.some
    /\ CachedMatches # <<>>

\* the interval and crop window the bounds of a highlight call start from:
\* all the matches and the whole text without a crop, the best interval and
\* its window with one
CallMci ==
    IF crop_filter(call.format_options.crop) = CropNone
    THEN MatchesAndCropIndexes(0, Len(CachedMatches) - 1, 0,
                               LastOf(CachedTokens).byte_end)
    ELSE get_matches_and_crop_indexes(CachedTokens, CachedMatches,
                                      call.format_options.crop, overflow_checks)

\* the bytes of the n-th match (0-based)
MatchBytes(n) == get_match_byte_position_range(CachedTokens, CachedMatches[n + 1])

\* the first selected match: the one before the interval when it ends after
\* the start of the crop
SelectedFirst(mci) ==
    IF mci.matches_first_index # 0
       /\ mci.crop_byte_start < MatchBytes(mci.matches_first_index - 1)[2]
    THEN mci.matches_first_index - 1
    ELSE mci.matches_first_index

\* the last selected match, as the code selects it
SelectedLast(mci) ==
    IF SelectedFirst(mci) # mci.matches_last_index
       /\ mci.matches_last_index # Len(CachedMatches) - 1
       /\ MatchBytes(mci.matches_last_index + 1)[1] < mci.crop_byte_end
    THEN mci.matches_last_index + 1
    ELSE mci.matches_last_index

\* the start of the segment of a selected match, clamped for the first one
SegmentStart(mci, n) ==
    IF n = SelectedFirst(mci) THEN Max(MatchBytes(n)[1], mci.crop_byte_start)
    ELSE MatchBytes(n)[1]

\* the end of the segment of a selected match, clamped for the last one
SegmentEnd(mci, n) ==
    IF n = SelectedLast(mci) THEN Min(MatchBytes(n)[2], mci.crop_byte_end)
    ELSE MatchBytes(n)[2]

\* a plain segment leads (a = 1) or trails (b = 1) the selected matches
LeadingPlain(mci) == mci.crop_byte_start < SegmentStart(mci, SelectedFirst(mci))

TrailingPlain(mci) == mci.crop_byte_end > SegmentEnd(mci, SelectedLast(mci))

RECURSIVE HighlightedFrom(_, _)
\* the segments of the selected matches from the n-th on, each between the
\* highlight delimiters, and the gaps between them as plain text
HighlightedFrom(mci, n) ==
    highlight_prefix
    \o BytesFromTo(text, SegmentStart(mci, n), SegmentEnd(mci, n))
    \o highlight_suffix
    \o (IF n >= SelectedLast(mci) THEN <<>>
        ELSE BytesFromTo(text, SegmentEnd(mci, n), SegmentStart(mci, n + 1))
             \o HighlightedFrom(mci, n + 1))

\* the text of the crop window with exactly the selected matches highlighted
ExpectedAlternation(mci) ==
    (IF LeadingPlain(mci)
     THEN BytesFromTo(text, mci.crop_byte_start, SegmentStart(mci, SelectedFirst(mci)))
     ELSE <<>>)
    \o HighlightedFrom(mci, SelectedFirst(mci))
    \o (IF TrailingPlain(mci)
        THEN BytesFromTo(text, SegmentEnd(mci, SelectedLast(mci)), mci.crop_byte_end)
        ELSE <<>>)

\* the number of 1s among two conditions
Ones(a, b) == (IF a THEN 1 ELSE 0) + (IF b THEN 1 ELSE 0)

\* C25: for a highlight call with matches returning Formatted, indexes has
\* 2 * k + a + b entries for the k selected matches, a plain segment before
\* them (a) and one after them (b); highlight_toggle is true exactly when
\* a = 0; and the text the formatter returns for these bounds highlights the
\* k match segments and has the gaps between and around them as plain text
C25_Alternation ==
    (HighlightCall /\ bounds.type = "formatted") =>
        /\ Len(bounds.indexes)
              = 2 * (SelectedLast(CallMci) - SelectedFirst(CallMci) + 1)
                + Ones(LeadingPlain(CallMci), TrailingPlain(CallMci))
        /\ bounds.highlight_toggle <=> ~LeadingPlain(CallMci)
        /\ formatted.kind = "owned" =>
              BetweenMarkers(formatted.text) = ExpectedAlternation(CallMci)

\* C25 happens: two matches are selected, with plain text before, between
\* and after them
C25_Witness ==
    /\ HighlightCall
    /\ bounds.type = "formatted"
    /\ formatted.kind = "owned"
    /\ SelectedLast(CallMci) = SelectedFirst(CallMci) + 1
    /\ LeadingPlain(CallMci)
    /\ TrailingPlain(CallMci)
    /\ Len(bounds.indexes) = 6
    /\ SegmentEnd(CallMci, SelectedFirst(CallMci))
          < SegmentStart(CallMci, SelectedLast(CallMci))

\* the segments the formatter highlights for Formatted bounds: the pairs of
\* consecutive indexes at the highlight turns of the alternation
HighlightSegments(b) ==
    { <<b.indexes[i], b.indexes[i + 1]>> :
        i \in { j \in 1..(Len(b.indexes) - 1) :
                  (j % 2 = 1) <=> b.highlight_toggle } }

\* a highlight call with a crop that found its interval and window
CropHighlightCall ==
    /\ HighlightCall
    /\ crop_filter(call.format_options.crop) # CropNone
    /\ bounds.type = "formatted"

\* the match before the best interval ends after the start of the crop
PreviousMatchDue(mci) ==
    /\ mci.matches_first_index # 0
    /\ MatchBytes(mci.matches_first_index - 1)[2] > mci.crop_byte_start

\* the match after the best interval starts before the end of the crop
FollowingMatchDue(mci) ==
    /\ mci.matches_last_index # Len(CachedMatches) - 1
    /\ MatchBytes(mci.matches_last_index + 1)[1] < mci.crop_byte_end

\* C26: with crop and highlight, the match before the best interval is
\* highlighted, clamped to the crop window, when it ends after
\* crop_byte_start, and the match after the best interval when it starts
\* before crop_byte_end, whatever the number of matches of the interval
C26_BothSides ==
    CropHighlightCall =>
        /\ PreviousMatchDue(CallMci) =>
              << Max(MatchBytes(CallMci.matches_first_index - 1)[1],
                     CallMci.crop_byte_start),
                 MatchBytes(CallMci.matches_first_index - 1)[2] >>
                 \in HighlightSegments(bounds)
        /\ FollowingMatchDue(CallMci) =>
              << MatchBytes(CallMci.matches_last_index + 1)[1],
                 Min(MatchBytes(CallMci.matches_last_index + 1)[2],
                     CallMci.crop_byte_end) >>
                 \in HighlightSegments(bounds)

\* the phrases of the table with no slot
ZeroSlotPhrases ==
    { n \in 1..Len(matching_words.located_matching_phrases) :
        matching_words.located_matching_phrases[n].value = <<>> }

\* the result of the inner advance loop of get_best_match_interval entered
\* with an interval_first, for the match at an index as the next match
AdvancedFrom(interval_first, index) ==
    AdvanceLoop(CachedMatches, interval_first,
                get_last_word_pos(CachedMatches[index + 1]),
                call.format_options.crop)

\* C27: the loop of get_matches has a variant: the cursors its iterations
\* start with pass at least one more non-separator token each time, and the
\* last iteration finds no token left and no phrase; a phrase of zero slots
\* matches at no cursor and leaves the cursor alone; the advance loop of
\* get_best_match_interval leaves interval_first strictly greater, and at
\* most matches.len() - 1, or finds it at matches.len() - 1 and stops
C27_Termination ==
    tokens_and_matches.some =>
        LET vc == visited_cursors(matching_words, CachedTokens, overflow_checks)
        IN /\ \A c \in 1..(Len(vc) - 1) :
                 /\ vc[c] < vc[c + 1]
                 /\ WordsBetween(CachedTokens, vc[c], vc[c + 1]) >= 1
           /\ WordTokensFrom(CachedTokens, LastOf(vc)) = <<>>
           /\ ~try_get_phrase_match(matching_words, CachedTokens, LastOf(vc)).found
           /\ Len(vc) <= WordCount(CachedTokens) + 1
           /\ \A n \in ZeroSlotPhrases :
                 \A cur \in 0..Len(CachedTokens) :
                     PhraseLoop(<<matching_words.located_matching_phrases[n]>>,
                                CachedTokens, cur)
                        = [NoMatch EXCEPT !.cursor = cur]
           /\ SelectorCalled =>
                 \A interval_first, index \in 0..(Len(CachedMatches) - 1) :
                     /\ AdvancedFrom(interval_first, index) <= Len(CachedMatches) - 1
                     /\ \/ AdvancedFrom(interval_first, index) > interval_first
                        \/ interval_first = Len(CachedMatches) - 1

\* C27 happens: the table has a phrase of zero slots, get_matches went
\* through three iterations or more, and the selector advanced the left end
\* of its interval past a match
C27_Witness ==
    /\ tokens_and_matches.some
    /\ ZeroSlotPhrases # {}
    /\ Len(visited_cursors(matching_words, CachedTokens, overflow_checks)) >= 3
    /\ SelectorCalled
    /\ bounds.type = "formatted"
    /\ \E k \in 1..Len(scored_intervals(CachedMatches, call.format_options.crop, overflow_checks)) :
          scored_intervals(CachedMatches, call.format_options.crop, overflow_checks)[k][1] >= 1

\* a match list sorted by word position
SortedByWordPosition(matches) ==
    \A i \in 1..(Len(matches) - 1) :
        get_last_word_pos(matches[i]) < get_first_word_pos(matches[i + 1])

\* C28: for a non-empty match list sorted by word position and a crop size
\* of 1 or more, get_best_match_interval returns [first, last] with
\* first <= last < matches.len(), and every interval it scores has
\* interval_first <= interval_last
C28_IntervalWellFormed ==
    (SelectorCalled /\ SortedByWordPosition(CachedMatches)) =>
        /\ ~SelectorResult.panic
        /\ SelectorResult.range[1] <= SelectorResult.range[2]
        /\ SelectorResult.range[2] < Len(CachedMatches)
        /\ \A k \in 1..Len(scored_intervals(CachedMatches, call.format_options.crop, overflow_checks)) :
              scored_intervals(CachedMatches, call.format_options.crop, overflow_checks)[k][1]
                 <= scored_intervals(CachedMatches, call.format_options.crop, overflow_checks)[k][2]

\* C29: when highlight is false, a call that returns bounds returns Full or
\* Formatted with highlight_toggle false and exactly two indexes, and the
\* text get_formatted_text returns has no highlight prefix or suffix; every
\* Formatted value, in any mode, has at least two indexes
C29_NoHighlight ==
    /\ (call.op # "none" /\ ~call.format_options.highlight) =>
          /\ bounds.type = "formatted" =>
                /\ ~bounds.highlight_toggle
                /\ Len(bounds.indexes) = 2
          /\ formatted.kind \in {"owned", "borrowed"} => ~HasHighlight(formatted.text)
    /\ bounds.type = "formatted" => Len(bounds.indexes) >= 2

\* C29 happens: a crop without highlight of a text with two matches or more
\* returns a window that starts inside the text
C29_Witness ==
    /\ call.op = "get_formatted_text"
    /\ ~call.format_options.highlight
    /\ tokens_and_matches.some
    /\ Len(CachedMatches) >= 2
    /\ bounds.type = "formatted"
    /\ Len(bounds.indexes) = 2
    /\ bounds.indexes[1] > 0
    /\ formatted.kind = "owned"
    /\ ~HasHighlight(formatted.text)

\* C30: Action's Sequence implementation enumerates the declared flags:
\* next() yields a greater value each time, returns None on last() only, and
\* an enumeration from first() has yielded CARDINALITY values when it ends;
\* previous(first()) is None and previous(b) is Some(a) whenever next(a) is
\* Some(b); no call overflows in get_potential_index() - 2
C30_Sequence ==
    /\ action_item.kind # "panic"
    /\ (sequence_call.op = "next" /\ action_item.kind = "Some") =>
          /\ action_item.bits > sequence_call.self
          /\ sequence_previous(action_item.bits, overflow_checks)
                = SomeAction(sequence_call.self)
    /\ (sequence_call.op = "next" /\ action_item.kind = "None") =>
          /\ SomeAction(sequence_call.self) = sequence_last
          /\ visited > 0 => visited = CARDINALITY
    /\ (sequence_call.op = "last" /\ action_item.kind = "Some") =>
          sequence_next(action_item.bits) = NoneAction
    /\ (sequence_call.op = "previous"
          /\ SomeAction(sequence_call.self) = sequence_first) =>
          action_item = NoneAction

====
